---- MODULE Spec2Model ----
(***************************************************************************)
(* A model of jsonapy (src/jsonapy/base.py, src/jsonapy/utils.py): resource *)
(* classes built by the BaseResourceMeta metaclass, instances built by      *)
(* BaseResource.__init__, the per-class link factory registry, and the      *)
(* JSON:API export BaseResource.jsonapi_dict.                               *)
(*                                                                         *)
(* Python strings that the code takes apart (field names, link names,       *)
(* literal links) are sequences of one-character strings.  Python values    *)
(* are records tagged by their runtime type in the field t.                 *)
(***************************************************************************)
EXTENDS Integers, Sequences, FiniteSets, TLC

\* ------------------------------------------------------------------ bounds

\* identifiers given to instances range over 1..MaxId
MaxId == 2
\* longest collection held by a multi-valued relationship field
MaxMany == 2
\* longest text given to snake_to_camel_case
MaxLen == 4
\* deepest nesting of the type hints of the fields a program declares
MaxDepth == 2

\* ------------------------------------------------------------- strings

LowerCase == <<"a","b","c","d","e","f","g","h","i","j","k","l","m",
               "n","o","p","q","r","s","t","u","v","w","x","y","z">>
UpperCase == <<"A","B","C","D","E","F","G","H","I","J","K","L","M",
               "N","O","P","Q","R","S","T","U","V","W","X","Y","Z">>

\* str.upper() and str.lower() of one character
Upper(c) ==
  IF \E i \in 1..26 : LowerCase[i] = c
  THEN UpperCase[CHOOSE i \in 1..26 : LowerCase[i] = c]
  ELSE c

Lower(c) ==
  IF \E i \in 1..26 : UpperCase[i] = c
  THEN LowerCase[CHOOSE i \in 1..26 : UpperCase[i] = c]
  ELSE c

\* str.capitalize() that leaves the characters after the first as they are
capitalize_first_only(s) ==
  [i \in 1..Len(s) |-> IF i = 1 THEN Upper(s[i]) ELSE s[i]]

\* str.capitalize(): first character upper-cased, the others lower-cased
capitalize(s) ==
  [i \in 1..Len(s) |-> IF i = 1 THEN Upper(s[i]) ELSE Lower(s[i])]

\* the index of the first occurrence of sep in text at or after from, 0 if none
RECURSIVE Find(_, _, _)
Find(text, sep, from) ==
  IF from + Len(sep) - 1 > Len(text) THEN 0
  ELSE IF SubSeq(text, from, from + Len(sep) - 1) = sep THEN from
  ELSE Find(text, sep, from + 1)

\* str.split(sep): the sequence of the parts of text between occurrences of sep
RECURSIVE split(_, _)
split(text, sep) ==
  LET i == Find(text, sep, 1) IN
  IF i = 0 THEN <<text>>
  ELSE <<SubSeq(text, 1, i - 1)>> \o split(SubSeq(text, i + Len(sep), Len(text)), sep)

RECURSIVE Concat(_)
Concat(parts) ==
  IF parts = <<>> THEN <<>> ELSE Head(parts) \o Concat(Tail(parts))

\* snake_to_camel_case without the str.capitalize of the parts after the first
snake_to_camel_case_joined(text, dontformat) ==
  IF dontformat THEN text
  ELSE Concat(split(text, <<"_">>))

\* utils.snake_to_camel_case
snake_to_camel_case(text, dontformat) ==
  IF dontformat THEN text
  ELSE LET parts == split(text, <<"_">>) IN
       Head(parts) \o Concat([i \in 1..(Len(parts) - 1) |-> capitalize(parts[i + 1])])

\* --------------------------------------------------------------- names

n_id == <<"i","d">>
n_type == <<"t","y","p","e">>
n_links == <<"l","i","n","k","s">>
n_relationships == <<"r","e","l","a","t","i","o","n","s","h","i","p","s">>
n_meta == <<"m","e","t","a">>
n_name == <<"n","a","m","e">>
n_optional_attr == <<"o","p","t","i","o","n","a","l","_","a","t","t","r">>
n_version == <<"v","e","r","s","i","o","n">>
n_related_more == <<"r","e","l","a","t","e","d","_","m","o","r","e">>
n_related_less == <<"r","e","l","a","t","e","d","_","l","e","s","s">>
n_jsonapi_dict == <<"j","s","o","n","a","p","i","_","d","i","c","t">>
n_dump == <<"d","u","m","p">>
n_register_link_factory == <<"r","e","g","i","s","t","e","r","_","l","i","n","k","_",
                             "f","a","c","t","o","r","y">>
n_self == <<"s","e","l","f">>
n_other == <<"o","t","h","e","r">>

\* ---------------------------------------------------------- type hints

\* A type hint is [origin, cls, metaclass, args]: origin is what
\* typing.get_origin returns ("None" for a plain class), args what
\* typing.get_args returns; a plain class carries its name and its metaclass.
PlainClass(name, metaclass) ==
  [origin |-> "None", cls |-> name, metaclass |-> metaclass, args |-> <<>>]
Builtin(name) == PlainClass(name, "type")
Resource(name) == PlainClass(name, "BaseResourceMeta")
NoneType == Builtin("NoneType")
UnionOf(args) == [origin |-> "Union", cls |-> "", metaclass |-> "", args |-> args]
OptionalOf(hint) == UnionOf(<<hint, NoneType>>)
IterableOf(hint) == [origin |-> "Iterable", cls |-> "", metaclass |-> "", args |-> <<hint>>]
ListOf(hint) == [origin |-> "list", cls |-> "", metaclass |-> "", args |-> <<hint>>]

\* utils.is_type_hint_instance_of
RECURSIVE is_type_hint_instance_of(_, _)
is_type_hint_instance_of(type_hint, mcs) ==
  IF type_hint.origin = "None" /\ type_hint.metaclass = mcs THEN TRUE
  ELSE IF type_hint.origin = "None" THEN FALSE
  ELSE IF type_hint.origin = "Union"
       THEN IF Len(type_hint.args) # 2 THEN FALSE
            ELSE IF \A i \in 1..Len(type_hint.args) : type_hint.args[i] # NoneType THEN FALSE
            ELSE is_type_hint_instance_of(type_hint.args[1], mcs)
  ELSE IF type_hint.origin = "Iterable"
       THEN is_type_hint_instance_of(type_hint.args[1], mcs)
  ELSE FALSE

\* utils.is_an_iterable_type_hint
is_an_iterable_type_hint(rel_type_hint) ==
  \/ rel_type_hint.origin = "Iterable"
  \/ \E i \in 1..Len(rel_type_hint.args) : rel_type_hint.args[i].origin = "Iterable"

\* utils.is_an_optional_type_hint
is_an_optional_type_hint(type_hint) ==
  IF type_hint.origin = "None" THEN FALSE
  ELSE IF type_hint.origin = "Union"
       THEN IF Len(type_hint.args) # 2 THEN FALSE
            ELSE IF \A i \in 1..Len(type_hint.args) : type_hint.args[i] # NoneType THEN FALSE
            ELSE TRUE
  ELSE FALSE

\* ------------------------------------------------- results of operations

\* One line of an exception message: the sentence, the name it quotes (a field,
\* relationship or qualified link name) and the class it quotes, if any.
Line(msg, name) == [msg |-> msg, name |-> name, cls |-> ""]
ClassLine(msg, name, cls) == [msg |-> msg, name |-> name, cls |-> cls]

\* What a call does: it returns value, or raises exc with the message lines.
Return(value) == [ok |-> TRUE, exc |-> "", lines |-> {}, value |-> value]
Raise(exc, lines) == [ok |-> FALSE, exc |-> exc, lines |-> lines, value |-> <<>>]

\* ------------------------------------------------------- Python values

PyNone == [t |-> "None"]
PyInt(i) == [t |-> "int", i |-> i]
PyStr(s) == [t |-> "str", s |-> s]
PyList(items) == [t |-> "list", items |-> items]
PyDict(d) == [t |-> "dict", d |-> d]
PySet(elems) == [t |-> "set", elems |-> elems]
\* a dictionary whose order counts: the sequence of its items [k, v]
PyItems(items) == [t |-> "items", items |-> items]
Item(k, v) == [k |-> k, v |-> v]
PyBool(b) == [t |-> "bool", b |-> b]
\* a function object; get_id is `lambda resource: resource.id`
PyCallable(f) == [t |-> "callable", f |-> f]
\* an instance of a resource class with its __dict__
PyObject(cls, dict) == [t |-> "obj", cls |-> cls, dict |-> dict]

EmptyDict == [k \in {} |-> PyNone]

\* bool(value)
Truthy(value) ==
  CASE value.t = "None" -> FALSE
    [] value.t = "bool" -> value.b
    [] value.t = "int" -> value.i # 0
    [] value.t = "str" -> value.s # <<>>
    [] value.t = "list" -> value.items # <<>>
    [] value.t = "dict" -> DOMAIN value.d # {}
    [] value.t = "set" -> value.elems # {}
    [] value.t = "items" -> value.items # <<>>
    [] OTHER -> TRUE

\* ------------------------------------------------------ resource classes

\* the members every resource class inherits from BaseResource
BaseResourceMembers == {n_jsonapi_dict, n_dump, n_register_link_factory}

\* _validate_link_name accepting every name
_validate_link_name_unchecked(klass, name) ==
  Return(PyNone)

\* _validate_link_name looking for the last part of the name, not the first,
\* among the relationships
_validate_link_name_last_part(klass, name) ==
  LET split_name == split(name, <<"_","_">>) IN
  IF Len(split_name) > 1 /\ split_name[Len(split_name)] \notin klass.__relationships_fields_set__
  THEN Raise("ValueError",
             {ClassLine("is not a valid relationship for", split_name[Len(split_name)],
                        klass.__name__)})
  ELSE Return(PyNone)

\* base._validate_link_name: the ValueError for a relationship-qualified name
\* whose first part is no relationship of the class, else a plain return
_validate_link_name(klass, name) ==
  LET split_name == split(name, <<"_","_">>) IN
  IF Len(split_name) > 1 /\ split_name[1] \notin klass.__relationships_fields_set__
  THEN Raise("ValueError",
             {ClassLine("is not a valid relationship for", split_name[1], klass.__name__)})
  ELSE Return(PyNone)

\* the dictionary that has the entries of every dictionary of the sequence,
\* an earlier one before a later one
RECURSIVE Merged(_)
Merged(dicts) == IF dicts = <<>> THEN EmptyDict ELSE Head(dicts) @@ Merged(Tail(dicts))

\* dict.get on the Meta inner class
MetaGet(meta, key, default) == IF key \in DOMAIN meta THEN meta[key] ELSE default

\* The class statement `class name(bases): annotations; class Meta: meta`. Its
\* namespace holds the values the class body assigns to names (`name: hint = value`).
ClassStatement(name, bases, annotations, meta) ==
  [name |-> name, bases |-> bases, annotations |-> annotations, meta |-> meta,
   namespace |-> EmptyDict]

\* BaseResourceMeta.__new__ taking a class with no Meta.is_abstract for abstract
BaseResourceMeta__new___abstract_by_default(defined, stmt) ==
  LET forbidden_fields == {n_type, n_links, n_relationships}
      identifier_fields == {n_type, n_id}
      mro == <<stmt.name>> \o Concat([i \in 1..Len(stmt.bases) |-> defined[stmt.bases[i]].mro])
      AnnotationsOf(k) ==
        IF k = stmt.name THEN stmt.annotations ELSE defined[k].__annotations__
      names == UNION {DOMAIN AnnotationsOf(mro[i]) : i \in 1..Len(mro)}
      \* a dict comprehension: the last klass of the mro that annotates a name wins
      Last(n) == CHOOSE i \in 1..Len(mro) :
                   /\ n \in DOMAIN AnnotationsOf(mro[i])
                   /\ \A j \in (i + 1)..Len(mro) : n \notin DOMAIN AnnotationsOf(mro[j])
      annotations == [n \in names |-> AnnotationsOf(mro[Last(n)])[n]]
      atomic == {n \in names : ~is_type_hint_instance_of(annotations[n], "BaseResourceMeta")}
                  \ forbidden_fields
      relationships == {n \in names : is_type_hint_instance_of(annotations[n], "BaseResourceMeta")}
      declared == MetaGet(stmt.meta, "links_factories", EmptyDict)
      checked == [__name__ |-> stmt.name, __relationships_fields_set__ |-> relationships]
      invalid == {n \in DOMAIN declared : ~_validate_link_name(checked, n).ok}
      is_abstract == MetaGet(stmt.meta, "is_abstract", TRUE)
      cls == [__name__ |-> stmt.name,
              mro |-> mro,
              \* what type.__new__ keeps of the namespace, as a lookup through the
              \* mro finds it: the class's own values before those of its bases
              attributes |-> stmt.namespace
                               @@ Merged([i \in 1..Len(stmt.bases) |->
                                            defined[stmt.bases[i]].attributes]),
              __annotations__ |-> annotations,
              __fields_types__ |-> annotations,
              __atomic_fields_set__ |-> atomic,
              __relationships_fields_set__ |-> relationships,
              __links_factories__ |-> declared,
              __is_abstract__ |-> is_abstract,
              __resource_name__ |-> MetaGet(stmt.meta, "resource_name", stmt.name),
              __identifier_meta_attributes__ |->
                  MetaGet(stmt.meta, "identifier_meta_attributes", {}),
              __meta_attributes__ |-> MetaGet(stmt.meta, "meta_attributes", {}),
              _forbidden_fields |-> forbidden_fields,
              _identifier_fields |-> identifier_fields]
  IN IF invalid # {}
     THEN _validate_link_name(checked, CHOOSE n \in invalid : TRUE)
     ELSE IF ~is_abstract /\ n_id \notin names
     THEN Raise("AttributeError", {Line("A Resource must have an 'id' attribute.", <<>>)})
     ELSE Return(cls)

\* BaseResourceMeta.__new__ taking the resource name of the first base when Meta
\* gives none
BaseResourceMeta__new___inherited_name(defined, stmt) ==
  LET forbidden_fields == {n_type, n_links, n_relationships}
      identifier_fields == {n_type, n_id}
      mro == <<stmt.name>> \o Concat([i \in 1..Len(stmt.bases) |-> defined[stmt.bases[i]].mro])
      AnnotationsOf(k) ==
        IF k = stmt.name THEN stmt.annotations ELSE defined[k].__annotations__
      names == UNION {DOMAIN AnnotationsOf(mro[i]) : i \in 1..Len(mro)}
      \* a dict comprehension: the last klass of the mro that annotates a name wins
      Last(n) == CHOOSE i \in 1..Len(mro) :
                   /\ n \in DOMAIN AnnotationsOf(mro[i])
                   /\ \A j \in (i + 1)..Len(mro) : n \notin DOMAIN AnnotationsOf(mro[j])
      annotations == [n \in names |-> AnnotationsOf(mro[Last(n)])[n]]
      atomic == {n \in names : ~is_type_hint_instance_of(annotations[n], "BaseResourceMeta")}
                  \ forbidden_fields
      relationships == {n \in names : is_type_hint_instance_of(annotations[n], "BaseResourceMeta")}
      declared == MetaGet(stmt.meta, "links_factories", EmptyDict)
      checked == [__name__ |-> stmt.name, __relationships_fields_set__ |-> relationships]
      invalid == {n \in DOMAIN declared : ~_validate_link_name(checked, n).ok}
      is_abstract == MetaGet(stmt.meta, "is_abstract", FALSE)
      cls == [__name__ |-> stmt.name,
              mro |-> mro,
              \* what type.__new__ keeps of the namespace, as a lookup through the
              \* mro finds it: the class's own values before those of its bases
              attributes |-> stmt.namespace
                               @@ Merged([i \in 1..Len(stmt.bases) |->
                                            defined[stmt.bases[i]].attributes]),
              __annotations__ |-> annotations,
              __fields_types__ |-> annotations,
              __atomic_fields_set__ |-> atomic,
              __relationships_fields_set__ |-> relationships,
              __links_factories__ |-> declared,
              __is_abstract__ |-> is_abstract,
              __resource_name__ |->
                  MetaGet(stmt.meta, "resource_name",
                          IF stmt.bases = <<>> THEN stmt.name
                          ELSE defined[stmt.bases[1]].__resource_name__),
              __identifier_meta_attributes__ |->
                  MetaGet(stmt.meta, "identifier_meta_attributes", {}),
              __meta_attributes__ |-> MetaGet(stmt.meta, "meta_attributes", {}),
              _forbidden_fields |-> forbidden_fields,
              _identifier_fields |-> identifier_fields]
  IN IF invalid # {}
     THEN _validate_link_name(checked, CHOOSE n \in invalid : TRUE)
     ELSE IF ~is_abstract /\ n_id \notin names
     THEN Raise("AttributeError", {Line("A Resource must have an 'id' attribute.", <<>>)})
     ELSE Return(cls)

\* BaseResourceMeta.__new__: the class object built from a class statement, given
\* the class objects defined so far
BaseResourceMeta__new__(defined, stmt) ==
  LET forbidden_fields == {n_type, n_links, n_relationships}
      identifier_fields == {n_type, n_id}
      mro == <<stmt.name>> \o Concat([i \in 1..Len(stmt.bases) |-> defined[stmt.bases[i]].mro])
      AnnotationsOf(k) ==
        IF k = stmt.name THEN stmt.annotations ELSE defined[k].__annotations__
      names == UNION {DOMAIN AnnotationsOf(mro[i]) : i \in 1..Len(mro)}
      \* a dict comprehension: the last klass of the mro that annotates a name wins
      Last(n) == CHOOSE i \in 1..Len(mro) :
                   /\ n \in DOMAIN AnnotationsOf(mro[i])
                   /\ \A j \in (i + 1)..Len(mro) : n \notin DOMAIN AnnotationsOf(mro[j])
      annotations == [n \in names |-> AnnotationsOf(mro[Last(n)])[n]]
      atomic == {n \in names : ~is_type_hint_instance_of(annotations[n], "BaseResourceMeta")}
                  \ forbidden_fields
      relationships == {n \in names : is_type_hint_instance_of(annotations[n], "BaseResourceMeta")}
      declared == MetaGet(stmt.meta, "links_factories", EmptyDict)
      checked == [__name__ |-> stmt.name, __relationships_fields_set__ |-> relationships]
      invalid == {n \in DOMAIN declared : ~_validate_link_name(checked, n).ok}
      is_abstract == MetaGet(stmt.meta, "is_abstract", FALSE)
      cls == [__name__ |-> stmt.name,
              mro |-> mro,
              \* what type.__new__ keeps of the namespace, as a lookup through the
              \* mro finds it: the class's own values before those of its bases
              attributes |-> stmt.namespace
                               @@ Merged([i \in 1..Len(stmt.bases) |->
                                            defined[stmt.bases[i]].attributes]),
              __annotations__ |-> annotations,
              __fields_types__ |-> annotations,
              __atomic_fields_set__ |-> atomic,
              __relationships_fields_set__ |-> relationships,
              __links_factories__ |-> declared,
              __is_abstract__ |-> is_abstract,
              __resource_name__ |-> MetaGet(stmt.meta, "resource_name", stmt.name),
              __identifier_meta_attributes__ |->
                  MetaGet(stmt.meta, "identifier_meta_attributes", {}),
              __meta_attributes__ |-> MetaGet(stmt.meta, "meta_attributes", {}),
              _forbidden_fields |-> forbidden_fields,
              _identifier_fields |-> identifier_fields]
  IN IF invalid # {}
     THEN _validate_link_name(checked, CHOOSE n \in invalid : TRUE)
     ELSE IF ~is_abstract /\ n_id \notin names
     THEN Raise("AttributeError", {Line("A Resource must have an 'id' attribute.", <<>>)})
     ELSE Return(cls)

\* ---------------------------------------------- the resource classes defined

\* the names of the link factory functions of the program
Factories == {"link_factory", "rel_link_factory"}

NoAnnotations == [n \in {} |-> NoneType]

\* class BaseResource(metaclass=BaseResourceMeta): class Meta: is_abstract = True
BaseResourceStatement ==
  ClassStatement("BaseResource", <<>>, NoAnnotations, ("is_abstract" :> TRUE))

\* class SimpleResource(BaseResource): id: int; name: str
SimpleResourceStatement ==
  ClassStatement("SimpleResource", <<"BaseResource">>,
                 (n_id :> Builtin("int")) @@ (n_name :> Builtin("str")),
                 ("resource_name" :> "less") @@ ("meta_attributes" :> {n_version})
                   @@ ("links_factories" :> (n_self :> PyCallable("link_factory"))))

\* class MoreAttributes(SimpleResource): optional_attr: Optional[str]
MoreAttributesStatement ==
  ClassStatement("MoreAttributes", <<"SimpleResource">>,
                 (n_optional_attr :> OptionalOf(Builtin("str"))),
                 ("resource_name" :> "more") @@ ("identifier_meta_attributes" :> {n_name}))

\* class RelatedResource(BaseResource): id: int; related_more: MoreAttributes;
\* related_less: Optional[Iterable[SimpleResource]]; Meta.links_factories: self
RelatedResourceStatement ==
  ClassStatement("RelatedResource", <<"BaseResource">>,
                 (n_id :> Builtin("int"))
                   @@ (n_related_more :> Resource("MoreAttributes"))
                   @@ (n_related_less :> OptionalOf(IterableOf(Resource("SimpleResource")))),
                 ("resource_name" :> "related")
                   @@ ("links_factories" :> (n_self :> PyCallable("link_factory"))))

\* class OptionalResource(BaseResource): id: int; optional_attr: Optional[str]
OptionalResourceStatement ==
  ClassStatement("OptionalResource", <<"BaseResource">>,
                 (n_id :> Builtin("int")) @@ (n_optional_attr :> OptionalOf(Builtin("str"))),
                 [k \in {} |-> {}])

n_lastname == <<"l","a","s","t","n","a","m","e">>
n_optional == <<"o","p","t","i","o","n","a","l">>
n_optional_iterable == <<"o","p","t","i","o","n","a","l","_","i","t","e","r","a","b","l","e">>
n_gender == <<"g","e","n","d","e","r">>

\* class AbstractResource(BaseResource): name: str; Meta.is_abstract = True
AbstractResourceStatement ==
  ClassStatement("AbstractResource", <<"BaseResource">>, (n_name :> Builtin("str")),
                 ("is_abstract" :> TRUE))

\* class ConcreteResource(AbstractResource): lastname: str; id: int;
\* optional: Optional[str] = "Default"; optional_iterable: Optional[Iterable[str]]
ConcreteResourceStatement ==
  [ClassStatement("ConcreteResource", <<"AbstractResource">>,
                  (n_lastname :> Builtin("str")) @@ (n_id :> Builtin("int"))
                    @@ (n_optional :> OptionalOf(Builtin("str")))
                    @@ (n_optional_iterable :> OptionalOf(IterableOf(Builtin("str")))),
                  ("resource_name" :> "concrete"))
     EXCEPT !.namespace = (n_optional :> PyStr(<<"D","e","f","a","u","l","t">>))]

Program == <<BaseResourceStatement, SimpleResourceStatement,
             MoreAttributesStatement, RelatedResourceStatement,
             OptionalResourceStatement,
             AbstractResourceStatement, ConcreteResourceStatement>>

\* the class objects after the first k class statements of the program have run
RECURSIVE Defined(_)
Defined(k) ==
  IF k = 0 THEN [c \in {} |-> <<>>]
  ELSE LET before == Defined(k - 1)
           made == BaseResourceMeta__new__(before, Program[k])
       IN IF made.ok THEN before @@ (Program[k].name :> made.value) ELSE before

\* the class objects once the program's class statements have run
DefinedClasses == Defined(Len(Program))

\* the concrete classes a program instantiates
ResourceClasses == {"SimpleResource", "MoreAttributes", "RelatedResource", "OptionalResource"}

\* ------------------------------------------------------------ more names

n_data == <<"d","a","t","a">>
n_attributes == <<"a","t","t","r","i","b","u","t","e","s">>
n_x == <<"x">>
n__identifier_dict == <<"_","i","d","e","n","t","i","f","i","e","r","_","d","i","c","t">>
\* the literal "__all__"
ALL == <<"_","_","a","l","l","_","_">>

\* a str the code never takes apart (a resource name), kept whole
PyText(x) == [t |-> "text", x |-> x]
\* the str a link factory returns when called with the keyword arguments kwargs
PyBuilt(factory, kwargs) == [t |-> "built", factory |-> factory, kwargs |-> kwargs]

\* dict.get(key), None when the key is missing
DictGet(d, key) == IF key \in DOMAIN d THEN d[key] ELSE PyNone

\* ------------------------------------------------------ attribute access

\* __getattr__ giving [] for the iterable type hints of relationships only
__getattr___relationships_only(klass, name) ==
  IF name = n_id
  THEN Raise("AttributeError", {ClassLine("object has no attribute", name, klass.__name__)})
  ELSE IF name \notin DOMAIN klass.__fields_types__
  THEN Raise("AttributeError", {ClassLine("object has no attribute", name, klass.__name__)})
  ELSE IF /\ is_an_iterable_type_hint(klass.__fields_types__[name])
          /\ name \in klass.__relationships_fields_set__
  THEN Return(PyList(<<>>))
  ELSE Return(PyNone)

\* BaseResource.__getattr__: called when the normal lookup finds nothing
__getattr__(klass, name) ==
  IF name = n_id
  THEN Raise("AttributeError", {ClassLine("object has no attribute", name, klass.__name__)})
  ELSE IF name \notin DOMAIN klass.__fields_types__
  THEN Raise("AttributeError", {ClassLine("object has no attribute", name, klass.__name__)})
  ELSE IF is_an_iterable_type_hint(klass.__fields_types__[name])
  THEN Return(PyList(<<>>))
  ELSE Return(PyNone)

\* getattr(obj, name): the instance __dict__, then the values and the members
\* of the class, then __getattr__.
Getattr(klass, obj, name) ==
  IF name \in DOMAIN obj.dict THEN Return(obj.dict[name])
  ELSE IF name \in DOMAIN klass.attributes THEN Return(klass.attributes[name])
  ELSE IF name \in BaseResourceMembers THEN Return(PyCallable("method"))
  ELSE __getattr__(klass, name)

\* calling a function object with the instance: get_id is `lambda r: r.id`
Call(klass, f, self) == Getattr(klass, self, n_id)

\* _identifier_dict that never adds the meta member
_identifier_dict_without_meta(klass, self) ==
  LET id == Getattr(klass, self, n_id)
      names == klass.__identifier_meta_attributes__
      failed == {n \in names : ~Getattr(klass, self, n).ok}
      identifier_dict == (n_type :> PyText(klass.__resource_name__)) @@ (n_id :> id.value)
  IN IF ~id.ok \/ failed # {}
     THEN __getattr__(klass, n__identifier_dict)
     ELSE Return(PyDict(identifier_dict))

\* BaseResource._identifier_dict of the instance self of class klass. It is a
\* property: an AttributeError raised in its body makes Python fall back on
\* __getattr__("_identifier_dict"), which raises the AttributeError of that name.
_identifier_dict(klass, self) ==
  LET id == Getattr(klass, self, n_id)
      names == klass.__identifier_meta_attributes__
      failed == {n \in names : ~Getattr(klass, self, n).ok}
      identifier_dict == (n_type :> PyText(klass.__resource_name__)) @@ (n_id :> id.value)
  IN IF ~id.ok \/ failed # {}
     THEN __getattr__(klass, n__identifier_dict)
     ELSE IF names = {} THEN Return(PyDict(identifier_dict))
     ELSE Return(PyDict(identifier_dict
                          @@ (n_meta :> PyDict([n \in names |-> Getattr(klass, self, n).value]))))

\* hasattr(obj, name). _identifier_dict is a property of the class: it is found
\* before the instance __dict__, and the instance has it iff its body returns.
HasAttr(klass, obj, name) ==
  IF name = n__identifier_dict THEN _identifier_dict(klass, obj).ok
  ELSE Getattr(klass, obj, name).ok

\* getattr(obj, name, None)
GetattrOrNone(klass, obj, name) ==
  LET got == Getattr(klass, obj, name) IN IF got.ok THEN got.value ELSE PyNone

\* BaseResource.__init__: the instance bound to the keyword arguments, or the
\* ValueError naming every reserved name among them
__init__(klass, kwargs) ==
  LET self == PyObject(klass.__name__, EmptyDict)
      errors == {Line("This attribute name is reserved", name) :
                   name \in {n \in DOMAIN kwargs :
                               \/ HasAttr(klass, self, n) /\ n \notin DOMAIN klass.__fields_types__
                               \/ n \in klass._forbidden_fields}}
  IN IF errors # {} THEN Raise("ValueError", errors)
     \* setattr on the property _identifier_dict, which has no setter
     ELSE IF n__identifier_dict \in DOMAIN kwargs
     THEN Raise("AttributeError",
                {ClassLine("property of object has no setter", n__identifier_dict,
                           klass.__name__)})
     ELSE Return(PyObject(klass.__name__, kwargs))

\* ------------------------------------------------------- jsonapi_dict

\* _qualname giving the name of the link alone, whatever the relationship
_qualname_unqualified(name, relationship) ==
  name

\* BaseResource._qualname; no relationship is the empty name
_qualname(name, relationship) ==
  IF relationship # <<>> THEN relationship \o <<"_","_">> \o name ELSE name

\* _validate_relationships asking every payload for a data member, whatever
\* its links member is
_validate_relationships_data_only(klass, relationships) ==
  LET Payload(i) == relationships[i].v
      errors ==
        {Line("is not a valid relationship", relationships[i].k) :
           i \in {j \in 1..Len(relationships) :
                    relationships[j].k \notin klass.__relationships_fields_set__}}
        \cup
        {Line("You must provide at least links or data for the relationship",
              relationships[i].k) :
           i \in {j \in 1..Len(relationships) : DictGet(Payload(j), n_data) = PyNone}}
  IN IF errors # {} THEN Raise("ValueError", errors) ELSE Return(PyNone)

\* BaseResource._validate_relationships; relationships is the sequence of the
\* (name, payload) items of the request dictionary
_validate_relationships(klass, relationships) ==
  LET Payload(i) == relationships[i].v
      \* the value of `rel_dict.get("links") is None and rel_dict.get("data")`
      AndValue(i) == IF DictGet(Payload(i), n_links) = PyNone
                     THEN DictGet(Payload(i), n_data)
                     ELSE PyBool(FALSE)
      errors ==
        {Line("is not a valid relationship", relationships[i].k) :
           i \in {j \in 1..Len(relationships) :
                    relationships[j].k \notin klass.__relationships_fields_set__}}
        \cup
        {Line("You must provide at least links or data for the relationship",
              relationships[i].k) :
           i \in {j \in 1..Len(relationships) : AndValue(j) = PyNone}}
  IN IF errors # {} THEN Raise("ValueError", errors) ELSE Return(PyNone)

\* BaseResource._validate_links; links is a dictionary, or a set of names, on
\* which the code's links.get and links[name] fail
_validate_links(klass, links, relationship) ==
  LET names == IF links.t = "set" THEN links.elems ELSE DOMAIN links.d
      Registered(name) == _qualname(name, relationship) \in DOMAIN klass.__links_factories__
      Error(name) ==
        IF Registered(name)
        THEN IF links.d[name].t # "dict"
             THEN {Line("You must provide an arguments dictionary for link",
                        _qualname(name, relationship))}
             ELSE {}
        ELSE IF links.d[name].t = "None"
        THEN {Line("Nothing provided for building link", _qualname(name, relationship))}
        ELSE IF links.d[name].t # "str"
        THEN {Line("Provided link is not a string", _qualname(name, relationship))}
        ELSE {}
      first == CHOOSE name \in names : TRUE
  IN IF names = {} THEN Return(PyNone)
     ELSE IF links.t = "set"
     THEN IF Registered(first)
          THEN Raise("TypeError", {Line("'set' object is not subscriptable", <<>>)})
          ELSE Raise("AttributeError", {Line("'set' object has no attribute 'get'", <<>>)})
     ELSE LET errors == UNION {Error(name) : name \in names}
          IN IF errors # {} THEN Raise("ValueError", errors) ELSE Return(PyNone)

\* _make_links passing the callable parameters to the factory as they are given
_make_links_unevaluated(klass, self, links, relationship) ==
  LET names == DOMAIN links.d
      unindexable == {name \in names : links.d[name].t = "str" /\ links.d[name].s # <<>>}
      uniterable == {name \in names : links.d[name].t \notin {"str", "dict"}}
      Evaluated(name) ==
        IF links.d[name].t = "dict" THEN links.d[name].d ELSE EmptyDict
      Factory(name) == DictGet(klass.__links_factories__, _qualname(name, relationship))
  IN IF uniterable # {}
     THEN Raise("TypeError", {Line("object is not iterable", <<>>)})
     ELSE IF unindexable # {}
     THEN Raise("TypeError", {Line("string indices must be integers", <<>>)})
     ELSE Return(PyDict([name \in names |->
                           IF Factory(name) # PyNone
                           THEN PyBuilt(Factory(name).f, Evaluated(name))
                           ELSE links.d[name]]))

\* BaseResource._make_links; links is a dictionary that passed _validate_links
_make_links(klass, self, links, relationship) ==
  LET names == DOMAIN links.d
      \* `for param in link: callable(link[param])` indexes a str by its characters
      unindexable == {name \in names : links.d[name].t = "str" /\ links.d[name].s # <<>>}
      uniterable == {name \in names : links.d[name].t \notin {"str", "dict"}}
      Evaluated(name) ==
        IF links.d[name].t = "dict"
        THEN [param \in DOMAIN links.d[name].d |->
                IF links.d[name].d[param].t = "callable"
                THEN Call(klass, links.d[name].d[param].f, self).value
                ELSE links.d[name].d[param]]
        ELSE EmptyDict
      Factory(name) == DictGet(klass.__links_factories__, _qualname(name, relationship))
  IN IF uniterable # {}
     THEN Raise("TypeError", {Line("object is not iterable", <<>>)})
     ELSE IF unindexable # {}
     THEN Raise("TypeError", {Line("string indices must be integers", <<>>)})
     ELSE Return(PyDict([name \in names |->
                           IF Factory(name) # PyNone
                           THEN PyBuilt(Factory(name).f, Evaluated(name))
                           ELSE links.d[name]]))

\* _make_links storing what the callables return in the links it is given
_make_links_argument_shared(klass, self, links, relationship) ==
  LET Written(link) ==
        IF link.t = "dict"
        THEN PyDict([param \in DOMAIN link.d |->
                       IF link.d[param].t = "callable"
                       THEN Call(klass, link.d[param].f, self).value
                       ELSE link.d[param]])
        ELSE link
  IN IF links.t # "dict" THEN links
     ELSE PyDict([name \in DOMAIN links.d |-> Written(links.d[name])])

\* The links given to BaseResource._make_links, as the caller finds them once
\* the loop of _make_links has run. objects are the two dictionaries the loop
\* works on, by the name _make_links has for them: evaluated_links is
\* copy.deepcopy(links), an object of its own with the items of links, and it
\* is the one where the loop stores what the callables return.
_make_links_argument(klass, self, links, relationship) ==
  LET Written(link) ==
        IF link.t = "dict"
        THEN PyDict([param \in DOMAIN link.d |->
                       IF link.d[param].t = "callable"
                       THEN Call(klass, link.d[param].f, self).value
                       ELSE link.d[param]])
        ELSE link
      objects == [object \in {"links", "evaluated_links"} |-> links]
      stored == [objects EXCEPT !["evaluated_links"] =
                   PyDict([name \in DOMAIN links.d |-> Written(links.d[name])])]
  IN IF links.t # "dict" THEN links ELSE stored["links"]

\* _filtered_attributes leaving the attributes whose value is None out
_filtered_attributes_without_none(klass, self, required_attributes, dontformat) ==
  LET required == IF required_attributes = PyStr(ALL)
                  THEN klass.__atomic_fields_set__ \cup {n_meta}
                  ELSE required_attributes.elems
      attrs == [name \in required \ {n_meta} |-> GetattrOrNone(klass, self, name)]
      errors ==
        {Line("Unexpected required attribute", name) :
           name \in {n \in required \ {n_meta} : n \notin klass.__atomic_fields_set__}}
        \cup
        {Line("Missing required attribute", name) :
           name \in {n \in required \ {n_meta} :
                       /\ n \in klass.__atomic_fields_set__
                       /\ attrs[n] = PyNone
                       /\ ~is_an_optional_type_hint(klass.__fields_types__[n])}}
      kept == {k \in DOMAIN attrs :
                 k \in required \ klass._identifier_fields /\ attrs[k] # PyNone}
      filtered == [key \in {snake_to_camel_case(k, dontformat) : k \in kept} |->
                     attrs[CHOOSE k \in kept : snake_to_camel_case(k, dontformat) = key]]
      meta_names == klass.__meta_attributes__
      unreadable == {n \in meta_names : ~Getattr(klass, self, n).ok}
      exported == {n \in meta_names : Getattr(klass, self, n).value # PyNone}
      meta_attrs ==
        PyDict([key \in {snake_to_camel_case(n, dontformat) : n \in exported} |->
                  Getattr(klass, self,
                          CHOOSE n \in exported : snake_to_camel_case(n, dontformat) = key).value])
  IN IF errors # {} THEN Raise("ValueError", errors)
     ELSE IF n_meta \notin required
     THEN Return([attrs |-> PyDict(filtered), meta_attrs |-> PyNone])
     ELSE IF unreadable # {} THEN Getattr(klass, self, CHOOSE n \in unreadable : TRUE)
     ELSE Return([attrs |-> PyDict(filtered), meta_attrs |-> meta_attrs])

\* _filtered_attributes raising as soon as one kind of error is found: the
\* unexpected names alone when there are some, else the missing ones
_filtered_attributes_first_kind(klass, self, required_attributes, dontformat) ==
  LET required == IF required_attributes = PyStr(ALL)
                  THEN klass.__atomic_fields_set__ \cup {n_meta}
                  ELSE required_attributes.elems
      attrs == [name \in required \ {n_meta} |-> GetattrOrNone(klass, self, name)]
      unexpected ==
        {Line("Unexpected required attribute", name) :
           name \in {n \in required \ {n_meta} : n \notin klass.__atomic_fields_set__}}
      missing ==
        {Line("Missing required attribute", name) :
           name \in {n \in required \ {n_meta} :
                       /\ n \in klass.__atomic_fields_set__
                       /\ attrs[n] = PyNone
                       /\ ~is_an_optional_type_hint(klass.__fields_types__[n])}}
      kept == {k \in DOMAIN attrs : k \in required \ klass._identifier_fields}
      filtered == [key \in {snake_to_camel_case(k, dontformat) : k \in kept} |->
                     attrs[CHOOSE k \in kept : snake_to_camel_case(k, dontformat) = key]]
      meta_names == klass.__meta_attributes__
      unreadable == {n \in meta_names : ~Getattr(klass, self, n).ok}
      exported == {n \in meta_names : Getattr(klass, self, n).value # PyNone}
      meta_attrs ==
        PyDict([key \in {snake_to_camel_case(n, dontformat) : n \in exported} |->
                  Getattr(klass, self,
                          CHOOSE n \in exported : snake_to_camel_case(n, dontformat) = key).value])
  IN IF unexpected # {} THEN Raise("ValueError", unexpected)
     ELSE IF missing # {} THEN Raise("ValueError", missing)
     ELSE IF n_meta \notin required
     THEN Return([attrs |-> PyDict(filtered), meta_attrs |-> PyNone])
     ELSE IF unreadable # {} THEN Getattr(klass, self, CHOOSE n \in unreadable : TRUE)
     ELSE Return([attrs |-> PyDict(filtered), meta_attrs |-> meta_attrs])

\* BaseResource._filtered_attributes: the pair (attributes, meta attributes), or
\* the ValueError listing every unexpected and every missing attribute
_filtered_attributes(klass, self, required_attributes, dontformat) ==
  LET required == IF required_attributes = PyStr(ALL)
                  THEN klass.__atomic_fields_set__ \cup {n_meta}
                  ELSE required_attributes.elems
      attrs == [name \in required \ {n_meta} |-> GetattrOrNone(klass, self, name)]
      errors ==
        {Line("Unexpected required attribute", name) :
           name \in {n \in required \ {n_meta} : n \notin klass.__atomic_fields_set__}}
        \cup
        {Line("Missing required attribute", name) :
           name \in {n \in required \ {n_meta} :
                       /\ n \in klass.__atomic_fields_set__
                       /\ attrs[n] = PyNone
                       /\ ~is_an_optional_type_hint(klass.__fields_types__[n])}}
      kept == {k \in DOMAIN attrs : k \in required \ klass._identifier_fields}
      \* a dict comprehension: were two kept names to share a key, one would win
      filtered == [key \in {snake_to_camel_case(k, dontformat) : k \in kept} |->
                     attrs[CHOOSE k \in kept : snake_to_camel_case(k, dontformat) = key]]
      meta_names == klass.__meta_attributes__
      unreadable == {n \in meta_names : ~Getattr(klass, self, n).ok}
      exported == {n \in meta_names : Getattr(klass, self, n).value # PyNone}
      meta_attrs ==
        PyDict([key \in {snake_to_camel_case(n, dontformat) : n \in exported} |->
                  Getattr(klass, self,
                          CHOOSE n \in exported : snake_to_camel_case(n, dontformat) = key).value])
  IN IF errors # {} THEN Raise("ValueError", errors)
     ELSE IF n_meta \notin required
     THEN Return([attrs |-> PyDict(filtered), meta_attrs |-> PyNone])
     ELSE IF unreadable # {} THEN Getattr(klass, self, CHOOSE n \in unreadable : TRUE)
     ELSE Return([attrs |-> PyDict(filtered), meta_attrs |-> meta_attrs])

\* isinstance(value, collections.abc.Iterable) for the values a field holds
IsIterable(value) == value.t \in {"list", "str", "dict", "set"}

\* FormattedRelationship giving the data as soon as the payload has a data
\* member, even a false one
FormattedRelationship_data_given(classes, self, name, rel_payload) ==
  LET klass == classes[self.cls]
      rel_value == self.dict[name]
      multiple_relationship == IsIterable(rel_value)
      relationship_links == DictGet(rel_payload, n_links)
      data_is_required == DictGet(rel_payload, n_data)
      validated == _validate_links(klass, relationship_links, name)
      made == _make_links(klass, self, relationship_links, name)
      Identifier(rel) == _identifier_dict(classes[rel.cls], rel)
      failed == IF multiple_relationship
                THEN {i \in 1..Len(rel_value.items) : ~Identifier(rel_value.items[i]).ok}
                ELSE IF Identifier(rel_value).ok THEN {} ELSE {1}
      first == CHOOSE i \in failed : \A j \in failed : i <= j
      data == IF multiple_relationship
              THEN PyList([i \in 1..Len(rel_value.items) |-> Identifier(rel_value.items[i]).value])
              ELSE Identifier(rel_value).value
      with_links == IF Truthy(relationship_links) THEN (n_links :> made.value) ELSE EmptyDict
  IN IF name \notin DOMAIN self.dict
     THEN Raise("KeyError", {Line("KeyError", name)})
     ELSE IF ~Truthy(rel_value)
     THEN Return(IF multiple_relationship THEN PyList(<<>>) ELSE PyNone)
     ELSE IF Truthy(relationship_links) /\ ~validated.ok THEN validated
     ELSE IF Truthy(relationship_links) /\ ~made.ok THEN made
     ELSE IF data_is_required = PyNone THEN Return(PyDict(with_links))
     ELSE IF failed # {}
     THEN IF multiple_relationship THEN Identifier(rel_value.items[first])
          ELSE Identifier(rel_value)
     ELSE Return(PyDict(with_links @@ (n_data :> data)))

\* One turn of the loop of BaseResource._formatted_relationships: the entry of
\* the relationship name requested with rel_payload. classes are the class
\* objects, by name.
FormattedRelationship(classes, self, name, rel_payload) ==
  LET klass == classes[self.cls]
      rel_value == self.dict[name]
      multiple_relationship == IsIterable(rel_value)
      relationship_links == DictGet(rel_payload, n_links)
      data_is_required == DictGet(rel_payload, n_data)
      validated == _validate_links(klass, relationship_links, name)
      made == _make_links(klass, self, relationship_links, name)
      Identifier(rel) == _identifier_dict(classes[rel.cls], rel)
      failed == IF multiple_relationship
                THEN {i \in 1..Len(rel_value.items) : ~Identifier(rel_value.items[i]).ok}
                ELSE IF Identifier(rel_value).ok THEN {} ELSE {1}
      first == CHOOSE i \in failed : \A j \in failed : i <= j
      data == IF multiple_relationship
              THEN PyList([i \in 1..Len(rel_value.items) |-> Identifier(rel_value.items[i]).value])
              ELSE Identifier(rel_value).value
      with_links == IF Truthy(relationship_links) THEN (n_links :> made.value) ELSE EmptyDict
  IN IF name \notin DOMAIN self.dict
     THEN Raise("KeyError", {Line("KeyError", name)})
     ELSE IF ~Truthy(rel_value)
     THEN Return(IF multiple_relationship THEN PyList(<<>>) ELSE PyNone)
     ELSE IF Truthy(relationship_links) /\ ~validated.ok THEN validated
     ELSE IF Truthy(relationship_links) /\ ~made.ok THEN made
     ELSE IF ~Truthy(data_is_required) THEN Return(PyDict(with_links))
     ELSE IF failed # {}
     THEN IF multiple_relationship THEN Identifier(rel_value.items[first])
          ELSE Identifier(rel_value)
     ELSE Return(PyDict(with_links @@ (n_data :> data)))

\* _formatted_relationships giving each entry the camel-cased name as its key
_formatted_relationships_camel_case(classes, self, relationships) ==
  LET Entry(i) == FormattedRelationship(classes, self, relationships[i].k, relationships[i].v)
      failed == {i \in 1..Len(relationships) : ~Entry(i).ok}
      first == CHOOSE i \in failed : \A j \in failed : i <= j
      names == {snake_to_camel_case(relationships[i].k, FALSE) : i \in 1..Len(relationships)}
  IN IF failed # {} THEN Entry(first)
     ELSE Return(PyDict([name \in names |->
                           Entry(CHOOSE i \in 1..Len(relationships) :
                                   snake_to_camel_case(relationships[i].k, FALSE) = name).value]))

\* BaseResource._formatted_relationships: the relationships object, or the
\* exception of the first relationship, in the order of the request, that raises
_formatted_relationships(classes, self, relationships) ==
  LET Entry(i) == FormattedRelationship(classes, self, relationships[i].k, relationships[i].v)
      failed == {i \in 1..Len(relationships) : ~Entry(i).ok}
      first == CHOOSE i \in failed : \A j \in failed : i <= j
      names == {relationships[i].k : i \in 1..Len(relationships)}
  IN IF failed # {} THEN Entry(first)
     ELSE Return(PyDict([name \in names |->
                           Entry(CHOOSE i \in 1..Len(relationships) :
                                   relationships[i].k = name).value]))

\* the keys of a dictionary built by inserting the pairs of candidates, in
\* order, whose flag is set
RECURSIVE Inserted(_)
Inserted(candidates) ==
  IF candidates = <<>> THEN <<>>
  ELSE (IF Head(candidates)[2] THEN <<Head(candidates)[1]>> ELSE <<>>)
         \o Inserted(Tail(candidates))

\* jsonapi_dict filtering the attributes before it looks for the id
jsonapi_dict_attributes_first(classes, self, required_attributes, links, relationships, dontformat) ==
  LET klass == classes[self.cls]
      filtered == _filtered_attributes(klass, self, required_attributes, dontformat)
      validated_relationships == _validate_relationships(klass, relationships.items)
      formatted == _formatted_relationships(classes, self, relationships.items)
      validated_links == _validate_links(klass, links, <<>>)
      made == _make_links(klass, self, links, <<>>)
      has_attributes == Truthy(filtered.value.attrs)
      has_relationships == Truthy(relationships)
      has_links == Truthy(links)
      has_meta == Truthy(filtered.value.meta_attrs)
      order == Inserted(<< <<n_type, TRUE>>, <<n_id, TRUE>>,
                           <<n_attributes, has_attributes>>,
                           <<n_relationships, has_relationships>>,
                           <<n_links, has_links>>, <<n_meta, has_meta>> >>)
      Value(key) ==
        CASE key = n_type -> PyText(klass.__resource_name__)
          [] key = n_id -> Getattr(klass, self, n_id).value
          [] key = n_attributes -> filtered.value.attrs
          [] key = n_relationships -> formatted.value
          [] key = n_links -> made.value
          [] key = n_meta -> filtered.value.meta_attrs
  IN IF ~filtered.ok THEN filtered
     ELSE IF ~HasAttr(klass, self, n_id)
     THEN Raise("AttributeError", {ClassLine("This object has no id.", <<>>, klass.__name__)})
     ELSE IF has_relationships /\ ~validated_relationships.ok THEN validated_relationships
     ELSE IF has_relationships /\ ~formatted.ok THEN formatted
     ELSE IF has_links /\ ~validated_links.ok THEN validated_links
     ELSE IF has_links /\ ~made.ok THEN made
     ELSE Return([t |-> "dict", order |-> order,
                  d |-> [key \in {order[i] : i \in 1..Len(order)} |-> Value(key)]])

\* jsonapi_dict inserting the links before the relationships
jsonapi_dict_links_first(classes, self, required_attributes, links, relationships, dontformat) ==
  LET klass == classes[self.cls]
      filtered == _filtered_attributes(klass, self, required_attributes, dontformat)
      validated_relationships == _validate_relationships(klass, relationships.items)
      formatted == _formatted_relationships(classes, self, relationships.items)
      validated_links == _validate_links(klass, links, <<>>)
      made == _make_links(klass, self, links, <<>>)
      has_attributes == Truthy(filtered.value.attrs)
      has_relationships == Truthy(relationships)
      has_links == Truthy(links)
      has_meta == Truthy(filtered.value.meta_attrs)
      order == Inserted(<< <<n_type, TRUE>>, <<n_id, TRUE>>,
                           <<n_attributes, has_attributes>>,
                           <<n_links, has_links>>,
                           <<n_relationships, has_relationships>>, <<n_meta, has_meta>> >>)
      Value(key) ==
        CASE key = n_type -> PyText(klass.__resource_name__)
          [] key = n_id -> Getattr(klass, self, n_id).value
          [] key = n_attributes -> filtered.value.attrs
          [] key = n_relationships -> formatted.value
          [] key = n_links -> made.value
          [] key = n_meta -> filtered.value.meta_attrs
  IN IF ~HasAttr(klass, self, n_id)
     THEN Raise("AttributeError", {ClassLine("This object has no id.", <<>>, klass.__name__)})
     ELSE IF ~filtered.ok THEN filtered
     ELSE IF has_relationships /\ ~validated_relationships.ok THEN validated_relationships
     ELSE IF has_relationships /\ ~formatted.ok THEN formatted
     ELSE IF has_links /\ ~validated_links.ok THEN validated_links
     ELSE IF has_links /\ ~made.ok THEN made
     ELSE Return([t |-> "dict", order |-> order,
                  d |-> [key \in {order[i] : i \in 1..Len(order)} |-> Value(key)]])

\* BaseResource.jsonapi_dict of the instance self; relationships is PyNone or
\* the dictionary of the sequence of its items
jsonapi_dict(classes, self, required_attributes, links, relationships, dontformat) ==
  LET klass == classes[self.cls]
      filtered == _filtered_attributes(klass, self, required_attributes, dontformat)
      validated_relationships == _validate_relationships(klass, relationships.items)
      formatted == _formatted_relationships(classes, self, relationships.items)
      validated_links == _validate_links(klass, links, <<>>)
      made == _make_links(klass, self, links, <<>>)
      has_attributes == Truthy(filtered.value.attrs)
      has_relationships == Truthy(relationships)
      has_links == Truthy(links)
      has_meta == Truthy(filtered.value.meta_attrs)
      order == Inserted(<< <<n_type, TRUE>>, <<n_id, TRUE>>,
                           <<n_attributes, has_attributes>>,
                           <<n_relationships, has_relationships>>,
                           <<n_links, has_links>>, <<n_meta, has_meta>> >>)
      Value(key) ==
        CASE key = n_type -> PyText(klass.__resource_name__)
          [] key = n_id -> Getattr(klass, self, n_id).value
          [] key = n_attributes -> filtered.value.attrs
          [] key = n_relationships -> formatted.value
          [] key = n_links -> made.value
          [] key = n_meta -> filtered.value.meta_attrs
  IN IF ~HasAttr(klass, self, n_id)
     THEN Raise("AttributeError", {ClassLine("This object has no id.", <<>>, klass.__name__)})
     ELSE IF ~filtered.ok THEN filtered
     ELSE IF has_relationships /\ ~validated_relationships.ok THEN validated_relationships
     ELSE IF has_relationships /\ ~formatted.ok THEN formatted
     ELSE IF has_links /\ ~validated_links.ok THEN validated_links
     ELSE IF has_links /\ ~made.ok THEN made
     ELSE Return([t |-> "dict", order |-> order,
                  d |-> [key \in {order[i] : i \in 1..Len(order)} |-> Value(key)]])

\* the turn of _formatted_relationships taking the data and links out of the
\* payload it is given (rel_payload.pop instead of rel_payload.get)
FormattedRelationship_argument_popped(classes, self, name, rel_payload) ==
  IF name \in DOMAIN self.dict /\ Truthy(self.dict[name])
  THEN [key \in DOMAIN rel_payload \ {n_links, n_data} |-> rel_payload[key]]
  ELSE rel_payload

\* The payload asked of the relationship name, as the caller finds it once the
\* turn of the loop of _formatted_relationships for name has run: the turn
\* gives the links of the payload to _make_links when the value of the
\* relationship is not empty and the links are valid
FormattedRelationship_argument(classes, self, name, rel_payload) ==
  LET klass == classes[self.cls]
      relationship_links == DictGet(rel_payload, n_links)
      made == /\ name \in DOMAIN self.dict
              /\ Truthy(self.dict[name])
              /\ Truthy(relationship_links)
              /\ _validate_links(klass, relationship_links, name).ok
  IN IF made
     THEN (n_links :> _make_links_argument(klass, self, relationship_links, name))
            @@ rel_payload
     ELSE rel_payload

\* The links and the relationships given to BaseResource.jsonapi_dict, as the
\* caller finds them after the call, whether it returned or raised: the
\* relationships are formatted in turn up to the first that raises, and the
\* links are made once the relationships are formatted
jsonapi_dict_arguments(classes, self, required_attributes, links, relationships, dontformat) ==
  LET klass == classes[self.cls]
      filtered == _filtered_attributes(klass, self, required_attributes, dontformat)
      started == HasAttr(klass, self, n_id) /\ filtered.ok
      has_relationships == Truthy(relationships)
      has_links == Truthy(links)
      Entry(i) == FormattedRelationship(classes, self, relationships.items[i].k,
                                        relationships.items[i].v)
      Turned(i) == /\ started
                   /\ _validate_relationships(klass, relationships.items).ok
                   /\ \A j \in 1..(i - 1) : Entry(j).ok
      formatted == \/ ~has_relationships
                   \/ /\ _validate_relationships(klass, relationships.items).ok
                      /\ _formatted_relationships(classes, self, relationships.items).ok
      made == /\ started
              /\ formatted
              /\ has_links
              /\ _validate_links(klass, links, <<>>).ok
  IN [links |-> IF made THEN _make_links_argument(klass, self, links, <<>>) ELSE links,
      relationships |->
        IF has_relationships
        THEN PyItems([i \in 1..Len(relationships.items) |->
                        IF Turned(i)
                        THEN Item(relationships.items[i].k,
                                  FormattedRelationship_argument(
                                    classes, self, relationships.items[i].k,
                                    relationships.items[i].v))
                        ELSE relationships.items[i]])
        ELSE relationships]

\* =================================================================== state

VARIABLES
  resources,            \* the classes made by the class statements run since Init, by name
  __links_factories__,  \* the link factory registry of each class, by class name
  inst,                 \* the instance the program holds, PyNone before it is constructed
  call,                 \* the last call made
  ret                   \* what the last call returned or raised

vars == <<resources, __links_factories__, inst, call, ret>>

\* the class objects as they are now: only their registries ever change
classes ==
  [c \in DOMAIN DefinedClasses \cup DOMAIN resources |->
     [(IF c \in DOMAIN resources THEN resources[c] ELSE DefinedClasses[c])
        EXCEPT !.__links_factories__ = __links_factories__[c]]]

\* no class statement
NoStatement == ClassStatement("", <<>>, NoAnnotations, [k \in {} |-> {}])

NoCall == [op |-> "", stmt |-> NoStatement,
           cls |-> "", name |-> <<>>, factory |-> PyNone, kwargs |-> EmptyDict,
           required_attributes |-> PyNone, links |-> PyNone, relationships |-> PyNone,
           dontformat |-> FALSE,
           \* the links and relationships of a dump as they are after it
           after |-> [links |-> PyNone, relationships |-> PyNone]]

\* ------------------------------------------------------------------ inputs

\* the dictionaries that give some of the names of values a value drawn from values[name]
Partial(values) ==
  UNION {{f \in [S -> UNION {values[n] : n \in S}] : \A n \in S : f[n] \in values[n]} :
           S \in SUBSET DOMAIN values}

\* the sequences without repetition, of length at most n, of elements of S
RECURSIVE Arrangements(_, _)
Arrangements(S, n) ==
  IF n = 0 THEN {<<>>}
  ELSE {<<>>} \cup {<<x>> \o rest : x \in S, rest \in Arrangements(S, n - 1)}

Distinct(seq) == \A i, j \in 1..Len(seq) : i # j => seq[i] # seq[j]

IdValues == {PyInt(i) : i \in 1..MaxId}

\* the instances a relationship field refers to
RelatedInstances(cls) ==
  {__init__(DefinedClasses[cls], (n_id :> id) @@ (n_name :> PyStr(<<"n">>))).value :
     id \in IdValues}

\* the values a program binds to the attribute name of a new instance of cls
AttributeValues(name) ==
  CASE name = n_id -> IdValues
    [] name = n_name -> {PyNone, PyStr(<<"n">>)}
    [] name = n_optional_attr -> {PyNone, PyStr(<<"o">>)}
    [] name = n_version -> {PyNone, PyStr(<<"v">>)}
    [] name = n_lastname -> {PyStr(<<"l">>)}
    [] name = n_optional -> {PyNone, PyStr(<<"H">>)}
    [] name = n_optional_iterable -> {PyNone, PyList(<<PyStr(<<"a">>)>>)}
    [] name = n_gender -> {PyStr(<<"M">>)}
    [] name = n_related_more ->
         {PyNone, __init__(DefinedClasses["MoreAttributes"], EmptyDict).value}
           \cup RelatedInstances("MoreAttributes")
    [] name = n_related_less ->
         {PyNone} \cup {PyList(items) :
                          items \in {a \in Arrangements(RelatedInstances("SimpleResource"), MaxMany) :
                                       Distinct(a)}}
    [] OTHER -> {PyInt(1)}

\* the keyword arguments of a construction: values for some of the fields and
\* meta attributes of the class, or some reserved names
Kwargs ==
  [cls \in ResourceClasses |->
     Partial([n \in DOMAIN DefinedClasses[cls].__fields_types__
                       \cup DefinedClasses[cls].__meta_attributes__ |-> AttributeValues(n)])
       \cup Partial([n \in {n_id, n_type, n_jsonapi_dict, n__identifier_dict} |-> AttributeValues(n)])]

\* the qualified names a program registers link factories under
RegisteredNames == {_qualname(n_self, n_related_more), _qualname(n_self, n_name)}

\* the required_attributes of a dump
AttributeRequests ==
  {PyStr(ALL)} \cup {PySet(S) : S \in SUBSET {n_id, n_name, n_optional_attr, n_meta}}

\* what a request gives for one link: nothing, a literal string, the keyword
\* arguments of the factory
LinkValues ==
  {PyNone, PyStr(<<>>), PyStr(<<"/","a">>),
   PyDict((n_x :> PyInt(1))), PyDict((n_x :> PyCallable("get_id")))}

\* the links of a dump: None, a dictionary, or (as the tests write) a set of one name
LinkRequests ==
  {PyNone} \cup {PyDict(d) : d \in Partial([n \in {n_self, n_other} |-> LinkValues])}
    \cup {PySet({n}) : n \in {n_self, n_other}}

\* the links requested inside a relationship
RelationshipLinkRequests ==
  {PyDict(EmptyDict), PySet({n_self})}
    \cup {PyDict((n_self :> v)) :
            v \in {PyNone, PyStr(<<"/","a">>), PyDict((n_x :> PyInt(1))),
                   PyDict((n_x :> PyCallable("get_id")))}}

PayloadValues(key) ==
  IF key = n_data THEN {PyBool(TRUE), PyBool(FALSE)} ELSE RelationshipLinkRequests

\* the sub-request of one relationship
Payloads == Partial([key \in {n_data, n_links} |-> PayloadValues(key)])

\* the relationships of a dump: None, or a dictionary of one or two items
RelationshipRequests ==
  {PyNone, PyItems(<<>>)}
    \cup {PyItems(<<Item(name, payload)>>) :
            name \in {n_related_more, n_related_less}, payload \in Payloads}
    \cup {PyItems(<<Item(n_name, payload)>>) : payload \in {EmptyDict, (n_data :> PyBool(TRUE))}}
    \cup {PyItems(<<Item(names[1], p1), Item(names[2], p2)>>) :
            names \in {<<n_related_more, n_related_less>>, <<n_related_less, n_related_more>>},
            p1 \in {EmptyDict, (n_data :> PyBool(TRUE))},
            p2 \in {EmptyDict, (n_data :> PyBool(TRUE))}}

Request(required_attributes, links, relationships, dontformat) ==
  [NoCall EXCEPT !.op = "jsonapi_dict", !.required_attributes = required_attributes,
                 !.links = links, !.relationships = relationships, !.dontformat = dontformat]

\* the dumps a program asks for: each part of the request varied alone, and the
\* three parts, each valid or not, together
Requests ==
  {Request(a, PyNone, PyNone, f) : a \in AttributeRequests, f \in BOOLEAN}
    \cup {Request(PySet({}), l, PyNone, FALSE) : l \in LinkRequests}
    \cup {Request(PySet({}), PyNone, r, FALSE) : r \in RelationshipRequests}
    \cup {Request(PySet({}), PyNone, r, TRUE) :
            r \in {PyItems(<<Item(n_related_more, (n_data :> PyBool(TRUE)))>>)}}
    \cup {Request(a, l, r, FALSE) :
            a \in {PyStr(ALL), PySet({n_related_more})},
            l \in {PyDict((n_self :> PyDict((n_x :> PyInt(1))))), PyDict((n_other :> PyNone))},
            r \in {PyItems(<<Item(n_related_more, (n_data :> PyBool(TRUE)))>>),
                   PyItems(<<Item(n_name, EmptyDict)>>)}}

\* ----------------------------------------------------------------- actions

Init ==
  /\ resources = [c \in {} |-> <<>>]
  /\ __links_factories__ = [c \in DOMAIN DefinedClasses |-> DefinedClasses[c].__links_factories__]
  /\ inst = PyNone
  /\ call = NoCall
  /\ ret = Return(PyNone)

\* inst = cls(**kwargs)
Construct(cls, kwargs) ==
  LET made == __init__(classes[cls], kwargs) IN
  /\ call' = [NoCall EXCEPT !.op = "__init__", !.cls = cls, !.kwargs = kwargs]
  /\ ret' = IF made.ok THEN Return(PyNone) ELSE made
  /\ inst' = IF made.ok THEN made.value ELSE inst
  /\ UNCHANGED <<resources, __links_factories__>>

\* register_link_factory on a registry that the classes derived from cls share
RegisterLinkFactory_shared(cls, name, factory) ==
  LET checked == _validate_link_name(classes[cls], name) IN
  /\ call' = [NoCall EXCEPT !.op = "register_link_factory", !.cls = cls, !.name = name,
                            !.factory = factory]
  /\ ret' = checked
  /\ __links_factories__' =
       IF checked.ok
       THEN [c \in DOMAIN __links_factories__ |->
               IF \E i \in 1..Len(classes[c].mro) : classes[c].mro[i] = cls
               THEN (name :> factory) @@ __links_factories__[c]
               ELSE __links_factories__[c]]
       ELSE __links_factories__
  /\ UNCHANGED <<resources, inst>>

\* register_link_factory keeping the factory a name already has
RegisterLinkFactory_keeping_first(cls, name, factory) ==
  LET checked == _validate_link_name(classes[cls], name) IN
  /\ call' = [NoCall EXCEPT !.op = "register_link_factory", !.cls = cls, !.name = name,
                            !.factory = factory]
  /\ ret' = checked
  /\ __links_factories__' = IF checked.ok
                            THEN [__links_factories__ EXCEPT ![cls] = @ @@ (name :> factory)]
                            ELSE __links_factories__
  /\ UNCHANGED <<resources, inst>>

\* cls.register_link_factory(name, factory)
RegisterLinkFactory(cls, name, factory) ==
  LET checked == _validate_link_name(classes[cls], name) IN
  /\ call' = [NoCall EXCEPT !.op = "register_link_factory", !.cls = cls, !.name = name,
                            !.factory = factory]
  /\ ret' = checked
  /\ __links_factories__' = IF checked.ok
                            THEN [__links_factories__ EXCEPT ![cls] = (name :> factory) @@ @]
                            ELSE __links_factories__
  /\ UNCHANGED <<resources, inst>>

\* inst.jsonapi_dict(required_attributes, links, relationships, dontformat)
JsonapiDict(request) ==
  /\ inst # PyNone
  /\ call' = [request EXCEPT !.after =
                jsonapi_dict_arguments(classes, inst, request.required_attributes,
                                       request.links, request.relationships,
                                       request.dontformat)]
  /\ ret' = jsonapi_dict(classes, inst, request.required_attributes, request.links,
                         request.relationships, request.dontformat)
  /\ UNCHANGED <<resources, __links_factories__, inst>>

\* the last dump asked once more: the program gives the same links and
\* relationships objects, which are as the last dump left them
Again == [call EXCEPT !.links = call.after.links,
                      !.relationships = call.after.relationships]

\* The program: it registers link factories, then constructs one instance and
\* dumps it. The registry belongs to the class and an instance keeps nothing
\* of it, and a dump changes nothing but call and ret, so what a dump does
\* depends only on the registrations and the construction made before it, not
\* on their order nor on earlier dumps: the program registers before it
\* constructs, dumps after that, and may repeat its last dump.
Next ==
  \/ /\ inst = PyNone
     /\ \E cls \in ResourceClasses : \E kwargs \in Kwargs[cls] : Construct(cls, kwargs)
  \/ /\ inst = PyNone
     /\ \E cls \in ResourceClasses : \E name \in RegisteredNames : \E f \in Factories :
          RegisterLinkFactory(cls, name, PyCallable(f))
  \/ \E request \in (IF call.op = "jsonapi_dict" THEN {Again} ELSE Requests) :
       JsonapiDict(request)

Spec == Init /\ [][Next]_vars

\* ------------------------------------------ definitions and registrations

n_rel == <<"r","e","l">>

\* the bases of the classes a program defines
StatementBases == {<<"BaseResource">>, <<"SimpleResource">>}

\* their annotations: some of id: int, name: Optional[str], rel: SimpleResource
StatementAnnotations ==
  Partial((n_id :> {Builtin("int")}) @@ (n_name :> {OptionalOf(Builtin("str"))})
            @@ (n_rel :> {Resource("SimpleResource")}))

\* the members of their inner class Meta: each one is given or not
StatementMetas ==
  {is_abstract @@ resource_name @@ meta_attributes @@ links_factories :
     is_abstract \in {<<>>, ("is_abstract" :> TRUE)},
     resource_name \in {<<>>, ("resource_name" :> "customName")},
     meta_attributes \in {<<>>, ("meta_attributes" :> {n_version})},
     links_factories \in
       {<<>>} \cup {("links_factories" :> (name :> PyCallable("link_factory"))) :
                      name \in {n_self, _qualname(n_self, n_rel)}}}

\* the class statements of BResource
Statements ==
  {ClassStatement("BResource", bases, annotations, meta) :
     bases \in StatementBases, annotations \in StatementAnnotations, meta \in StatementMetas}

\* the names a program registers link factories under, once it defines classes
LinkNames == {n_self, _qualname(n_self, n_rel), _qualname(n_self, n_name)}

\* the class statement stmt: the class is bound to its name if it is made
DefineClass(stmt) ==
  LET made == BaseResourceMeta__new__(classes, stmt) IN
  /\ call' = [NoCall EXCEPT !.op = "class", !.stmt = stmt]
  /\ ret' = IF made.ok THEN Return(PyNone) ELSE made
  /\ resources' = IF made.ok THEN (stmt.name :> made.value) @@ resources ELSE resources
  /\ __links_factories__' =
       IF made.ok THEN (stmt.name :> made.value.__links_factories__) @@ __links_factories__
       ELSE __links_factories__
  /\ UNCHANGED inst

\* A program that defines the class BResource, derived from BaseResource or
\* from SimpleResource, and registers link factories on SimpleResource and, once
\* it is defined, on BResource.
DefinitionNext ==
  \/ /\ resources = <<>>
     /\ \E stmt \in Statements : DefineClass(stmt)
  \/ \E cls \in {"SimpleResource"} \cup DOMAIN resources :
       \E name \in LinkNames : \E f \in Factories :
         RegisterLinkFactory(cls, name, PyCallable(f))

DefinitionSpec == Init /\ [][DefinitionNext]_vars

\* ------------------------------------------------------ declared fields

\* the type hints that wrap hint once: Iterable[hint], List[hint] and, for a
\* hint that is not a Union itself (typing flattens a Union in a Union),
\* Optional[hint], Union[None, hint] and Union[hint, int]
Wrapped(hint) ==
  {IterableOf(hint), ListOf(hint)}
    \cup IF hint.origin = "Union" THEN {}
         ELSE {OptionalOf(hint), UnionOf(<<NoneType, hint>>), UnionOf(<<hint, Builtin("int")>>)}

\* the type hints of the fields a program declares: str and the resource class
\* SimpleResource, wrapped depth times at most
RECURSIVE TypeHints(_)
TypeHints(depth) ==
  IF depth = 0 THEN {Builtin("str"), Resource("SimpleResource")}
  ELSE TypeHints(depth - 1) \cup UNION {Wrapped(hint) : hint \in TypeHints(depth - 1)}

\* the names of the fields a program declares
FieldNames == {n_id, n_type, n_links, n_relationships, n_rel}

\* the class statements `class BResource(BaseResource): id: int; name: hint`
FieldStatements ==
  {ClassStatement("BResource", <<"BaseResource">>,
                  (name :> hint) @@ (n_id :> Builtin("int")), <<>>) :
     name \in FieldNames, hint \in TypeHints(MaxDepth)}

\* A program that defines the class BResource with a field of some name and
\* type hint.
FieldNext ==
  /\ resources = <<>>
  /\ \E stmt \in FieldStatements : DefineClass(stmt)

FieldSpec == Init /\ [][FieldNext]_vars

\* ----------------------------------------------------------- link lookup

\* the names a program registers link factories under on RelatedResource,
\* whose Meta registers self: top-level links and links of related_more
LookupNames ==
  {n_other, _qualname(n_self, n_related_more), _qualname(n_other, n_related_more)}

\* the instances it dumps: they have an id and a related_more
LookupKwargs ==
  {(n_id :> id) @@ (n_related_more :> more) :
     id \in IdValues, more \in RelatedInstances("MoreAttributes")}

\* the links of its dumps, at the top level or in related_more: the keyword
\* arguments of the factory for self, for other or for both
LookupLinks ==
  {PyDict(d) : d \in Partial([n \in {n_self, n_other} |-> {PyDict((n_x :> PyInt(1)))}])}

\* its dumps: links at the top level, links in related_more, or both
LookupRequests ==
  {Request(PySet({}), l, PyNone, FALSE) : l \in LookupLinks}
    \cup {Request(PySet({}), l, PyItems(<<Item(n_related_more, (n_links :> r))>>), FALSE) :
            l \in LookupLinks \cup {PyNone}, r \in LookupLinks}

\* A program that registers link factories on RelatedResource, constructs an
\* instance of it and dumps it with links.
LookupNext ==
  \/ /\ inst = PyNone
     /\ \E name \in LookupNames : \E f \in Factories :
          RegisterLinkFactory("RelatedResource", name, PyCallable(f))
  \/ /\ inst = PyNone
     /\ \E kwargs \in LookupKwargs : Construct("RelatedResource", kwargs)
  \/ /\ call.op # "jsonapi_dict"
     /\ \E request \in LookupRequests : JsonapiDict(request)

LookupSpec == Init /\ [][LookupNext]_vars

\* ------------------------------------------------- registries of a family

\* the classes of the program whose registries a program fills: SimpleResource
\* and MoreAttributes, which is derived from it
FamilyClasses == {"SimpleResource", "MoreAttributes"}

\* the class statements `class BResource(SimpleResource)`, with a Meta that
\* registers a factory under other or with none
FamilyStatements ==
  {ClassStatement("BResource", <<"SimpleResource">>, NoAnnotations, meta) :
     meta \in {<<>>, ("links_factories" :> (n_other :> PyCallable("link_factory")))}}

\* the names it registers link factories under
FamilyNames == {n_self, n_other}

\* the instances it dumps
FamilyKwargs == {(n_id :> id) @@ (n_name :> PyStr(<<"n">>)) : id \in IdValues}

\* its dumps: the keyword arguments of the factory for self, for other or both
FamilyRequests ==
  {Request(PySet({}), PyDict(d), PyNone, FALSE) :
     d \in Partial([n \in FamilyNames |-> {PyDict((n_x :> PyInt(1)))}]) \ {EmptyDict}}

\* A program that registers link factories on SimpleResource and on the classes
\* derived from it, MoreAttributes and, from its definition on, BResource, then
\* constructs an instance of one of the three and dumps it with links.
FamilyNext ==
  \/ /\ inst = PyNone
     /\ \E cls \in FamilyClasses \cup DOMAIN resources :
          \E name \in FamilyNames : \E f \in Factories :
            RegisterLinkFactory(cls, name, PyCallable(f))
  \/ /\ inst = PyNone
     /\ resources = <<>>
     /\ \E stmt \in FamilyStatements : DefineClass(stmt)
  \/ /\ inst = PyNone
     /\ \E cls \in FamilyClasses \cup DOMAIN resources :
          \E kwargs \in FamilyKwargs : Construct(cls, kwargs)
  \/ /\ call.op # "jsonapi_dict"
     /\ \E request \in FamilyRequests : JsonapiDict(request)

FamilySpec == Init /\ [][FamilyNext]_vars

\* ----------------------------------------------- constructions and reads

\* the classes a program constructs to read the attributes of the instance
AccessClasses == {"ConcreteResource", "RelatedResource"}

\* the keyword arguments of these constructions: values for some of the fields
\* of the class and for the extra attribute gender
AccessKwargs ==
  [cls \in AccessClasses |->
     Partial([n \in DOMAIN DefinedClasses[cls].__fields_types__ \cup {n_gender} |->
                AttributeValues(n)])]

\* the names a program reads on an instance
AccessNames ==
  {n_id, n_name, n_lastname, n_optional, n_optional_iterable, n_gender,
   n_related_more, n_related_less, n_other, n_jsonapi_dict}

\* inst.name
ReadAttribute(name) ==
  /\ inst # PyNone
  /\ call' = [NoCall EXCEPT !.op = "getattr", !.name = name]
  /\ ret' = Getattr(classes[inst.cls], inst, name)
  /\ UNCHANGED <<resources, __links_factories__, inst>>

\* A program that constructs one instance and reads its attributes.
AccessNext ==
  \/ /\ inst = PyNone
     /\ \E cls \in AccessClasses : \E kwargs \in AccessKwargs[cls] : Construct(cls, kwargs)
  \/ \E name \in AccessNames : ReadAttribute(name)

AccessSpec == Init /\ [][AccessNext]_vars

\* ------------------------------------------------------------ conversions

\* the texts of length at most n made of a lower-case letter, an upper-case
\* letter and the underscore
RECURSIVE TextsOfLength(_)
TextsOfLength(n) ==
  IF n = 0 THEN {<<>>}
  ELSE {Append(text, c) : text \in TextsOfLength(n - 1), c \in {"a", "B", "_"}}

\* the texts a program converts
Texts ==
  UNION {TextsOfLength(n) : n \in 0..MaxLen}
    \cup {<<"a","l","r","e","a","d","y","_","s","n","a","k","e">>}

\* utils.snake_to_camel_case(text, dontformat)
SnakeToCamelCase(text, dontformat) ==
  /\ call' = [NoCall EXCEPT !.op = "snake_to_camel_case", !.name = text,
                            !.dontformat = dontformat]
  /\ ret' = Return(PyStr(snake_to_camel_case(text, dontformat)))
  /\ UNCHANGED <<resources, __links_factories__, inst>>

\* A program that converts a text, and then converts what it got.
ConversionNext ==
  \/ /\ call.op = ""
     /\ \E text \in Texts : \E dontformat \in BOOLEAN : SnakeToCamelCase(text, dontformat)
  \/ /\ call.op = "snake_to_camel_case"
     /\ SnakeToCamelCase(ret.value.s, call.dontformat)

ConversionSpec == Init /\ [][ConversionNext]_vars

\* ================================================================ properties

\* C1: when a dump made with an explicit set R of attribute names and the
\* default formatting returns, its attributes object has exactly one entry per
\* name of R other than type, id and meta; the key of the entry is the
\* camel-cased name, its value is the value the instance holds for the field
\* (None when an optional field holds None or was never assigned); and the
\* attributes key is in the output iff there is such an entry.
C1_AttributesObject ==
  (call.op = "jsonapi_dict" /\ call.required_attributes.t = "set" /\ ~call.dontformat /\ ret.ok) =>
    LET wanted == call.required_attributes.elems \ {n_type, n_id, n_meta}
        Key(n) == IF n = n_optional_attr
                  THEN <<"o","p","t","i","o","n","a","l","A","t","t","r">>
                  ELSE n
        out == ret.value.d
    IN /\ (n_attributes \in DOMAIN out) <=> (wanted # {})
       /\ wanted # {} =>
            /\ DOMAIN out[n_attributes].d = {Key(n) : n \in wanted}
            /\ Cardinality(DOMAIN out[n_attributes].d) = Cardinality(wanted)
            /\ \A n \in wanted : out[n_attributes].d[Key(n)] = DictGet(inst.dict, n)

\* a MoreAttributes instance whose optional_attr is None, dumped with id, name,
\* optional_attr and meta requested: the attributes are name and optionalAttr
C1_Witness ==
  /\ call.op = "jsonapi_dict"
  /\ call.required_attributes = PySet({n_id, n_name, n_optional_attr, n_meta})
  /\ ~call.dontformat
  /\ inst.cls = "MoreAttributes"
  /\ DictGet(inst.dict, n_optional_attr) = PyNone
  /\ ret.ok
  /\ n_attributes \in DOMAIN ret.value.d
  /\ Cardinality(DOMAIN ret.value.d[n_attributes].d) = 2

\* C2: a dump checks the id, then the attributes, then the relationships, then
\* the top-level links, and raises the exception of the first step that fails:
\* an instance without an id gets the AttributeError "This '<class>' object has
\* no id." whatever else is wrong; with an id, an invalid attribute request
\* gets the ValueError of the attributes (an unreadable meta attribute its
\* AttributeError) whatever the relationships and links are; with valid
\* attributes, an invalid relationships request gets the ValueError of the
\* relationships; and the ValueError of a top-level link is raised only when
\* the attributes and the relationships requests are valid.
C2_ValidationOrder ==
  call.op = "jsonapi_dict" =>
    LET cls == classes[inst.cls]
        required == IF call.required_attributes = PyStr(ALL)
                    THEN cls.__atomic_fields_set__ \cup {n_meta}
                    ELSE call.required_attributes.elems
        has_id == n_id \in DOMAIN inst.dict
        bad_attributes ==
          \E n \in required \ {n_meta} :
            \/ n \notin cls.__atomic_fields_set__
            \/ /\ DictGet(inst.dict, n) = PyNone
               /\ ~is_an_optional_type_hint(cls.__fields_types__[n])
        unreadable_meta ==
          IF n_meta \in required
          THEN {n \in cls.__meta_attributes__ :
                  n \notin DOMAIN inst.dict \cup DOMAIN cls.__fields_types__}
          ELSE {}
        items == IF Truthy(call.relationships) THEN call.relationships.items ELSE <<>>
        bad_relationships ==
          \E i \in 1..Len(items) :
            \/ items[i].k \notin cls.__relationships_fields_set__
            \/ /\ DictGet(items[i].v, n_links) = PyNone
               /\ DictGet(items[i].v, n_data) = PyNone
        Raised(exc, msgs) ==
          ~ret.ok /\ ret.exc = exc /\ ret.lines # {} /\ \A l \in ret.lines : l.msg \in msgs
        top_level_link_error ==
          /\ Raised("ValueError", {"You must provide an arguments dictionary for link",
                                   "Nothing provided for building link",
                                   "Provided link is not a string"})
          /\ \A l \in ret.lines : l.name \in {n_self, n_other}
    IN /\ ~has_id =>
            ret = Raise("AttributeError", {ClassLine("This object has no id.", <<>>, inst.cls)})
       /\ (has_id /\ bad_attributes) =>
            Raised("ValueError", {"Unexpected required attribute", "Missing required attribute"})
       /\ (has_id /\ ~bad_attributes /\ unreadable_meta # {}) =>
            /\ Raised("AttributeError", {"object has no attribute"})
            /\ \A l \in ret.lines : l.name \in unreadable_meta
       /\ (has_id /\ ~bad_attributes /\ unreadable_meta = {} /\ bad_relationships) =>
            Raised("ValueError",
                   {"is not a valid relationship",
                    "You must provide at least links or data for the relationship"})
       /\ top_level_link_error =>
            has_id /\ ~bad_attributes /\ unreadable_meta = {} /\ ~bad_relationships

\* an instance without an id dumped with an attribute that is no atomic field,
\* a relationship that is no relationship and a link given no value
C2_Witness ==
  /\ call.op = "jsonapi_dict"
  /\ n_id \notin DOMAIN inst.dict
  /\ call.required_attributes = PySet({n_related_more})
  /\ call.relationships = PyItems(<<Item(n_name, EmptyDict)>>)
  /\ call.links = PyDict((n_other :> PyNone))
  /\ ~ret.ok
  /\ ret.exc = "AttributeError"

C4_AttributesIffValued ==
  (/\ call.op = "jsonapi_dict"
   /\ call.required_attributes = PyStr(ALL)
   /\ ~Truthy(call.links)
   /\ ~Truthy(call.relationships)
   /\ ret.ok) =>
    LET cls == classes[inst.cls]
        valued == \E n \in cls.__atomic_fields_set__ \ {n_type, n_id} :
                    DictGet(inst.dict, n) # PyNone
    IN DOMAIN ret.value.d \ {n_meta} =
         {n_type, n_id} \cup (IF valued THEN {n_attributes} ELSE {})

\* C4, amended: a dump with "__all__", no links and no relationships that
\* returns has the keys type and id, attributes iff the class has an atomic
\* field other than type and id (the None of an optional field is exported),
\* meta iff a meta attribute of the class holds a value that is not None on
\* the instance, and no other key.
C4_AttributesIffDeclared ==
  (/\ call.op = "jsonapi_dict"
   /\ call.required_attributes = PyStr(ALL)
   /\ ~Truthy(call.links)
   /\ ~Truthy(call.relationships)
   /\ ret.ok) =>
    LET cls == classes[inst.cls]
        declared == cls.__atomic_fields_set__ \ {n_type, n_id} # {}
        has_meta == \E n \in cls.__meta_attributes__ : DictGet(inst.dict, n) # PyNone
    IN DOMAIN ret.value.d =
         {n_type, n_id} \cup (IF declared THEN {n_attributes} ELSE {})
                        \cup (IF has_meta THEN {n_meta} ELSE {})

\* an OptionalResource whose only attribute is None, dumped with "__all__": the
\* output has attributes, holding that None
C4_Witness ==
  /\ call.op = "jsonapi_dict"
  /\ call.required_attributes = PyStr(ALL)
  /\ call.links = PyNone
  /\ call.relationships = PyNone
  /\ inst.cls = "OptionalResource"
  /\ DictGet(inst.dict, n_optional_attr) = PyNone
  /\ ret.ok
  /\ n_attributes \in DOMAIN ret.value.d
  /\ \A k \in DOMAIN ret.value.d[n_attributes].d : ret.value.d[n_attributes].d[k] = PyNone

\* C5: when a dump returns, the entry of each relationship requested with a
\* truthy data whose value is not empty has for data the identifier reference
\* of the related instance: type is the resource name of its class, id its id,
\* and meta, present iff the class has identifier meta attributes, maps each
\* of their names to the value the related instance holds; for a field holding
\* a list, data is the list of the references of its items, in their order.
C5_IdentifierReferences ==
  (call.op = "jsonapi_dict" /\ Truthy(call.relationships) /\ ret.ok) =>
    LET items == call.relationships.items
        Reference(rel) ==
          LET names == classes[rel.cls].__identifier_meta_attributes__ IN
          PyDict((n_type :> PyText(classes[rel.cls].__resource_name__))
                   @@ (n_id :> rel.dict[n_id])
                   @@ (IF names # {}
                       THEN (n_meta :> PyDict([n \in names |-> DictGet(rel.dict, n)]))
                       ELSE EmptyDict))
    IN \A i \in 1..Len(items) :
         LET value == inst.dict[items[i].k]
             entry == ret.value.d[n_relationships].d[items[i].k]
         IN (Truthy(DictGet(items[i].v, n_data)) /\ Truthy(value)) =>
              /\ entry.t = "dict"
              /\ n_data \in DOMAIN entry.d
              /\ entry.d[n_data] =
                   IF value.t = "list"
                   THEN PyList([j \in 1..Len(value.items) |-> Reference(value.items[j])])
                   ELSE Reference(value)

\* a RelatedResource dumped with the data of related_more, whose class has an
\* identifier meta attribute, and of related_less, which holds two instances
C5_Witness ==
  /\ call.op = "jsonapi_dict"
  /\ ret.ok
  /\ call.relationships =
       PyItems(<<Item(n_related_more, (n_data :> PyBool(TRUE))),
                 Item(n_related_less, (n_data :> PyBool(TRUE)))>>)
  /\ Truthy(DictGet(inst.dict, n_related_more))
  /\ Truthy(DictGet(inst.dict, n_related_less))
  /\ n_meta \in DOMAIN ret.value.d[n_relationships].d[n_related_more].d[n_data].d
  /\ Len(ret.value.d[n_relationships].d[n_related_less].d[n_data].items) = 2

\* C6: when a dump returns, the entry of each requested relationship whose
\* value is None or an empty collection is None when the field is single-valued
\* and the empty list when the field is multi-valued; and the links requested
\* for such a relationship are not validated, so that a dump of an instance
\* with an id, with no attributes and no top-level links, whose requested
\* relationships are valid and all empty, returns.
C6_EmptyRelationship ==
  (call.op = "jsonapi_dict" /\ Truthy(call.relationships)) =>
    LET cls == classes[inst.cls]
        items == call.relationships.items
        Empty(i) == items[i].k \in DOMAIN inst.dict /\ ~Truthy(inst.dict[items[i].k])
        Valid(i) == /\ items[i].k \in cls.__relationships_fields_set__
                    /\ \/ DictGet(items[i].v, n_links) # PyNone
                       \/ DictGet(items[i].v, n_data) # PyNone
    IN /\ ret.ok =>
            \A i \in 1..Len(items) :
              Empty(i) =>
                ret.value.d[n_relationships].d[items[i].k] =
                  IF is_an_iterable_type_hint(cls.__fields_types__[items[i].k])
                  THEN PyList(<<>>)
                  ELSE PyNone
       /\ (/\ n_id \in DOMAIN inst.dict
           /\ call.required_attributes = PySet({})
           /\ ~Truthy(call.links)
           /\ \A i \in 1..Len(items) : Valid(i) /\ Empty(i)) => ret.ok

\* C7 as the specification states it: when an instance with an id is dumped
\* with a valid attribute request and a non-empty relationships request, the
\* dump raises the ValueError of the relationships, with one line per
\* violation, iff a requested name is no relationship field of the class or a
\* payload has neither a truthy data nor a non-empty links.
C7_TruthyDataOrLinks ==
  (call.op = "jsonapi_dict" /\ Truthy(call.relationships) /\ n_id \in DOMAIN inst.dict) =>
    LET cls == classes[inst.cls]
        required == IF call.required_attributes = PyStr(ALL)
                    THEN cls.__atomic_fields_set__ \cup {n_meta}
                    ELSE call.required_attributes.elems
        attributes_pass ==
          /\ \A n \in required \ {n_meta} :
               /\ n \in cls.__atomic_fields_set__
               /\ \/ DictGet(inst.dict, n) # PyNone
                  \/ is_an_optional_type_hint(cls.__fields_types__[n])
          /\ n_meta \in required =>
               cls.__meta_attributes__ \subseteq DOMAIN inst.dict \cup DOMAIN cls.__fields_types__
        items == call.relationships.items
        errors ==
          {Line("is not a valid relationship", items[i].k) :
             i \in {j \in 1..Len(items) : items[j].k \notin cls.__relationships_fields_set__}}
          \cup
          {Line("You must provide at least links or data for the relationship", items[i].k) :
             i \in {j \in 1..Len(items) : /\ ~Truthy(DictGet(items[j].v, n_data))
                                          /\ ~Truthy(DictGet(items[j].v, n_links))}}
    IN attributes_pass =>
         IF errors # {} THEN ret = Raise("ValueError", errors)
         ELSE \A l \in ret.lines :
                l.msg \notin {"is not a valid relationship",
                              "You must provide at least links or data for the relationship"}

\* C7, amended: when an instance with an id is dumped with a valid attribute
\* request and a non-empty relationships request, the dump raises the
\* ValueError of the relationships, with one line per violation, iff a
\* requested name is no relationship field of the class or a payload has
\* neither a data member nor a links member (a member that is None counts as
\* absent; a false data or an empty links counts as given).
C7_DataOrLinksMember ==
  (call.op = "jsonapi_dict" /\ Truthy(call.relationships) /\ n_id \in DOMAIN inst.dict) =>
    LET cls == classes[inst.cls]
        required == IF call.required_attributes = PyStr(ALL)
                    THEN cls.__atomic_fields_set__ \cup {n_meta}
                    ELSE call.required_attributes.elems
        attributes_pass ==
          /\ \A n \in required \ {n_meta} :
               /\ n \in cls.__atomic_fields_set__
               /\ \/ DictGet(inst.dict, n) # PyNone
                  \/ is_an_optional_type_hint(cls.__fields_types__[n])
          /\ n_meta \in required =>
               cls.__meta_attributes__ \subseteq DOMAIN inst.dict \cup DOMAIN cls.__fields_types__
        items == call.relationships.items
        errors ==
          {Line("is not a valid relationship", items[i].k) :
             i \in {j \in 1..Len(items) : items[j].k \notin cls.__relationships_fields_set__}}
          \cup
          {Line("You must provide at least links or data for the relationship", items[i].k) :
             i \in {j \in 1..Len(items) : /\ DictGet(items[j].v, n_data) = PyNone
                                          /\ DictGet(items[j].v, n_links) = PyNone}}
    IN attributes_pass =>
         IF errors # {} THEN ret = Raise("ValueError", errors)
         ELSE \A l \in ret.lines :
                l.msg \notin {"is not a valid relationship",
                              "You must provide at least links or data for the relationship"}

\* an instance dumped with the relationship name, which is no relationship
\* field, and an empty payload: one ValueError with the two lines
C7_Witness ==
  /\ call.op = "jsonapi_dict"
  /\ n_id \in DOMAIN inst.dict
  /\ call.required_attributes = PySet({})
  /\ call.relationships = PyItems(<<Item(n_name, EmptyDict)>>)
  /\ ret = Raise("ValueError",
                 {Line("is not a valid relationship", n_name),
                  Line("You must provide at least links or data for the relationship", n_name)})

\* C8: when a dump returns, the entry of each requested relationship whose
\* value is not empty is a dictionary that has a data key iff the data of the
\* payload is truthy and a links key iff the links of the payload are not
\* empty, and no other key; so a payload with a false data and links has the
\* entry of the payload with the links alone: the links built (a callable
\* parameter called with the instance), and nothing else.
C8_EntryKeys ==
  (call.op = "jsonapi_dict" /\ Truthy(call.relationships) /\ ret.ok) =>
    LET items == call.relationships.items IN
    \A i \in 1..Len(items) :
      LET entry == ret.value.d[n_relationships].d[items[i].k]
          data == DictGet(items[i].v, n_data)
          links == DictGet(items[i].v, n_links)
      IN Truthy(inst.dict[items[i].k]) =>
           /\ entry.t = "dict"
           /\ DOMAIN entry.d = (IF Truthy(data) THEN {n_data} ELSE {})
                                 \cup (IF Truthy(links) THEN {n_links} ELSE {})
           /\ (~Truthy(data) /\ Truthy(links)) =>
                entry = PyDict((n_links :>
                          PyDict([n \in DOMAIN links.d |->
                                    PyBuilt(classes[inst.cls].__links_factories__[
                                              items[i].k \o <<"_","_">> \o n].f,
                                            [p \in DOMAIN links.d[n].d |->
                                               IF links.d[n].d[p].t = "callable"
                                               THEN inst.dict[n_id]
                                               ELSE links.d[n].d[p]])])))

\* a RelatedResource with a factory registered for related_more__self, dumped
\* with a false data and the links of related_more: the entry has the links alone
C8_Witness ==
  /\ call.op = "jsonapi_dict"
  /\ ret.ok
  /\ call.relationships =
       PyItems(<<Item(n_related_more,
                      (n_data :> PyBool(FALSE))
                        @@ (n_links :> PyDict((n_self :> PyDict((n_x :> PyInt(1)))))))>>)
  /\ Truthy(inst.dict[n_related_more])
  /\ DOMAIN ret.value.d[n_relationships].d[n_related_more].d = {n_links}

\* C9: when an instance with an id is dumped with no attributes, no
\* relationships and some top-level links, every link named with a registered
\* factory must come with a dictionary of arguments, and every other link with
\* a string ("nothing provided" when it has no value, "not a string" when its
\* value is something else); if some do not, the dump raises one ValueError
\* with the line of each, naming it. A link requested by its name alone, in a
\* set, has no value: when no factory is registered for it, the dump raises a
\* ValueError with a line naming it.
C9_LinkErrors ==
  (/\ call.op = "jsonapi_dict"
   /\ n_id \in DOMAIN inst.dict
   /\ call.required_attributes = PySet({})
   /\ ~Truthy(call.relationships)
   /\ Truthy(call.links)) =>
    LET cls == classes[inst.cls]
        Registered(n) == n \in DOMAIN cls.__links_factories__
        given == IF call.links.t = "set" THEN EmptyDict ELSE call.links.d
        errors ==
          {Line("You must provide an arguments dictionary for link", n) :
             n \in {m \in DOMAIN given : Registered(m) /\ given[m].t # "dict"}}
          \cup
          {Line("Nothing provided for building link", n) :
             n \in {m \in DOMAIN given : ~Registered(m) /\ given[m] = PyNone}}
          \cup
          {Line("Provided link is not a string", n) :
             n \in {m \in DOMAIN given : ~Registered(m) /\ given[m].t \notin {"None", "str"}}}
    IN /\ errors # {} => ret = Raise("ValueError", errors)
       /\ call.links.t = "set" =>
            \A n \in call.links.elems :
              ~Registered(n) =>
                ~ret.ok /\ ret.exc = "ValueError" /\ \E l \in ret.lines : l.name = n

\* C10: when an instance with an id is dumped with no attributes, no
\* relationships and a dictionary of valid top-level links, each link that has
\* no registered factory and is given a string is in the links of the output,
\* which the dump returns, with that very string.
C10_LiteralLink ==
  (/\ call.op = "jsonapi_dict"
   /\ n_id \in DOMAIN inst.dict
   /\ call.required_attributes = PySet({})
   /\ ~Truthy(call.relationships)
   /\ call.links.t = "dict") =>
    LET cls == classes[inst.cls]
        given == call.links.d
        Registered(n) == n \in DOMAIN cls.__links_factories__
        valid == \A n \in DOMAIN given :
                   IF Registered(n) THEN given[n].t = "dict" ELSE given[n].t = "str"
    IN valid =>
         \A n \in DOMAIN given :
           (~Registered(n) /\ given[n].t = "str") =>
             /\ ret.ok
             /\ ret.value.d[n_links].d[n] = given[n]

\* C11: when a dump returns, each link it was asked for under a name that has a
\* registered factory, at the top level or inside a relationship, is what that
\* factory returns when called with the parameters of the request as keyword
\* arguments, each callable parameter replaced by what it returns when called
\* with the instance (get_id returns its id), the others passed as given.
C11_FactoryLinks ==
  (call.op = "jsonapi_dict" /\ ret.ok) =>
    LET cls == classes[inst.cls]
        Arguments(given) ==
          [param \in DOMAIN given |->
             IF given[param].t = "callable" THEN inst.dict[n_id] ELSE given[param]]
        Built(qualname, given) == PyBuilt(cls.__links_factories__[qualname].f, Arguments(given))
        items == IF Truthy(call.relationships) THEN call.relationships.items ELSE <<>>
    IN /\ Truthy(call.links) =>
            \A n \in DOMAIN call.links.d :
              n \in DOMAIN cls.__links_factories__ =>
                ret.value.d[n_links].d[n] = Built(n, call.links.d[n].d)
       /\ \A i \in 1..Len(items) :
            LET rel == items[i].k
                links == DictGet(items[i].v, n_links)
            IN (Truthy(inst.dict[rel]) /\ Truthy(links)) =>
                 \A n \in DOMAIN links.d :
                   (rel \o <<"_","_">> \o n) \in DOMAIN cls.__links_factories__ =>
                     ret.value.d[n_relationships].d[rel].d[n_links].d[n]
                       = Built(rel \o <<"_","_">> \o n, links.d[n].d)

\* an instance dumped with the link self, which has a factory, and the
\* parameter x given as the callable get_id: the factory is called with x = id
C11_Witness ==
  /\ call.op = "jsonapi_dict"
  /\ call.links = PyDict((n_self :> PyDict((n_x :> PyCallable("get_id")))))
  /\ n_self \in DOMAIN classes[inst.cls].__links_factories__
  /\ ret.ok
  /\ ret.value.d[n_links].d[n_self] = PyBuilt("link_factory", (n_x :> inst.dict[n_id]))

C13_MetaObject ==
  (call.op = "jsonapi_dict" /\ call.links = PyNone /\ call.relationships = PyNone) =>
    LET cls == classes[inst.cls]
        asked == IF call.required_attributes = PyStr(ALL) THEN TRUE
                 ELSE n_meta \in call.required_attributes.elems
        valued == {n \in cls.__meta_attributes__ : DictGet(inst.dict, n) # PyNone}
        meta == [key \in {snake_to_camel_case(n, call.dontformat) : n \in valued} |->
                   inst.dict[CHOOSE n \in valued : snake_to_camel_case(n, call.dontformat) = key]]
    IN /\ \A n \in cls.__meta_attributes__ :
            ret # Raise("AttributeError",
                        {ClassLine("object has no attribute", n, cls.__name__)})
       /\ (asked /\ ret.ok) =>
            IF valued = {} THEN n_meta \notin DOMAIN ret.value.d
            ELSE ret.value.d[n_meta] = PyDict(meta)
       /\ (~asked /\ ret.ok) => n_meta \notin DOMAIN ret.value.d

\* C14: a link name is accepted iff it has no "__" or the part before its first
\* "__" is a relationship field of the class. register_link_factory returns
\* iff the name is accepted, and otherwise raises the ValueError "'<rel>' is
\* not a valid relationship for <class>." and leaves every registry as it was.
\* A class statement whose Meta.links_factories has a rejected key raises that
\* ValueError for one of them, binds no class and touches no registry; one
\* with accepted keys only is not refused with a ValueError.
C14_LinkNames ==
  [][LET Parts(name) == split(name, <<"_","_">>)
         Accepted(name, rels) == Len(Parts(name)) = 1 \/ Parts(name)[1] \in rels
         Refusal(name, cls) ==
           Raise("ValueError",
                 {ClassLine("is not a valid relationship for", Parts(name)[1], cls)})
     IN /\ call'.op = "register_link_factory" =>
             LET rels == classes[call'.cls].__relationships_fields_set__ IN
             IF Accepted(call'.name, rels) THEN ret'.ok
             ELSE /\ ret' = Refusal(call'.name, call'.cls)
                  /\ __links_factories__' = __links_factories__
        /\ call'.op = "class" =>
             LET stmt == call'.stmt
                 keys == DOMAIN MetaGet(stmt.meta, "links_factories", EmptyDict)
                 rels == {n \in DOMAIN stmt.annotations :
                            stmt.annotations[n] = Resource("SimpleResource")}
                           \cup UNION {classes[stmt.bases[i]].__relationships_fields_set__ :
                                         i \in 1..Len(stmt.bases)}
                 rejected == {n \in keys : ~Accepted(n, rels)}
             IN IF rejected = {} THEN ret'.ok \/ ret'.exc # "ValueError"
                ELSE /\ ret' \in {Refusal(n, stmt.name) : n \in rejected}
                     /\ resources' = resources
                     /\ __links_factories__' = __links_factories__
    ]_vars

\* BResource is defined with the relationship rel and the atomic field name,
\* rel__self is registered, and the registration of name__self is refused
C14_Witness ==
  /\ "BResource" \in DOMAIN resources
  /\ n_rel \in resources["BResource"].__relationships_fields_set__
  /\ n_name \in resources["BResource"].__atomic_fields_set__
  /\ _qualname(n_self, n_rel) \in DOMAIN __links_factories__["BResource"]
  /\ call.op = "register_link_factory"
  /\ call.cls = "BResource"
  /\ call.name = _qualname(n_self, n_name)
  /\ ret = Raise("ValueError",
                 {ClassLine("is not a valid relationship for", n_name, "BResource")})
  /\ _qualname(n_self, n_name) \notin DOMAIN __links_factories__["BResource"]

\* C15: after a register_link_factory(name, factory) that returns, the
\* registry of the class has the keys it had and name, name is mapped to
\* factory whatever it was mapped to before, every other key keeps its
\* factory and the registries of the other classes are as they were; so
\* registering again a pair the registry already holds changes nothing, and
\* each key holds the factory of the last registration made under it.
C15_Registration ==
  [][(call'.op = "register_link_factory" /\ ret'.ok) =>
       LET cls == call'.cls
           old == __links_factories__[cls]
           new == __links_factories__'[cls]
       IN /\ DOMAIN new = DOMAIN old \cup {call'.name}
          /\ new[call'.name] = call'.factory
          /\ \A key \in DOMAIN old \ {call'.name} : new[key] = old[key]
          /\ \A c \in DOMAIN __links_factories__ \ {cls} :
               __links_factories__'[c] = __links_factories__[c]
          /\ DOMAIN __links_factories__' = DOMAIN __links_factories__
          /\ (call'.name \in DOMAIN old /\ old[call'.name] = call'.factory)
               => __links_factories__' = __links_factories__
    ]_vars

\* SimpleResource is defined with link_factory under self; rel_link_factory has
\* been registered under self and has taken its place
C15_Witness ==
  /\ DefinedClasses["SimpleResource"].__links_factories__ = (n_self :> PyCallable("link_factory"))
  /\ call.op = "register_link_factory"
  /\ call.cls = "SimpleResource"
  /\ call.name = n_self
  /\ call.factory = PyCallable("rel_link_factory")
  /\ ret.ok
  /\ __links_factories__["SimpleResource"] = (n_self :> PyCallable("rel_link_factory"))

\* C16: a class statement makes a class only if the class is
\* abstract or id is among the names annotated by the class or its ancestors;
\* the statement of a class that is not abstract (Meta.is_abstract is not
\* given, or false) and has no id raises the AttributeError "A Resource must
\* have an 'id' attribute.".
C16_IdRequired ==
  (call.op = "class") =>
    LET stmt == call.stmt
        abstract == "is_abstract" \in DOMAIN stmt.meta /\ stmt.meta["is_abstract"]
        merged == DOMAIN stmt.annotations
                    \cup UNION {DOMAIN classes[stmt.bases[i]].__fields_types__ :
                                  i \in 1..Len(stmt.bases)}
    IN /\ ret.ok => (abstract \/ n_id \in merged)
       /\ (~abstract /\ n_id \notin merged) =>
            ret = Raise("AttributeError", {Line("A Resource must have an 'id' attribute.", <<>>)})

\* C16, amended: a class statement makes a class only if the class is abstract
\* or id is among the names annotated by the class or its ancestors; the
\* statement of a class that is not abstract (Meta.is_abstract is not given, or
\* false) and has no id fails: with the ValueError of a refused key of
\* Meta.links_factories if there is one, and otherwise with the AttributeError
\* "A Resource must have an 'id' attribute.", which is raised in no other case;
\* a class made with no Meta.is_abstract is not abstract.
C16_IdRequiredAfterLinks ==
  (call.op = "class") =>
    LET stmt == call.stmt
        abstract == "is_abstract" \in DOMAIN stmt.meta /\ stmt.meta["is_abstract"]
        merged == DOMAIN stmt.annotations
                    \cup UNION {DOMAIN classes[stmt.bases[i]].__fields_types__ :
                                  i \in 1..Len(stmt.bases)}
        rels == {n \in DOMAIN stmt.annotations :
                   stmt.annotations[n] = Resource("SimpleResource")}
                  \cup UNION {classes[stmt.bases[i]].__relationships_fields_set__ :
                                i \in 1..Len(stmt.bases)}
        refused == {n \in DOMAIN MetaGet(stmt.meta, "links_factories", EmptyDict) :
                      LET parts == split(n, <<"_","_">>)
                      IN Len(parts) > 1 /\ parts[1] \notin rels}
        id_error == Raise("AttributeError",
                          {Line("A Resource must have an 'id' attribute.", <<>>)})
    IN /\ ret.ok => (abstract \/ n_id \in merged)
       /\ (~abstract /\ n_id \notin merged) =>
            IF refused = {} THEN ret = id_error
            ELSE ~ret.ok /\ ret.exc = "ValueError"
       /\ (ret = id_error) <=> (refused = {} /\ ~abstract /\ n_id \notin merged)
       /\ (ret.ok /\ "is_abstract" \notin DOMAIN stmt.meta) =>
            ~resources[stmt.name].__is_abstract__

\* the statement of BResource(BaseResource) with no annotation and no Meta has
\* raised the AttributeError
C16_Witness ==
  /\ call.op = "class"
  /\ call.stmt.bases = <<"BaseResource">>
  /\ DOMAIN call.stmt.annotations = {}
  /\ DOMAIN call.stmt.meta = {}
  /\ ret = Raise("AttributeError", {Line("A Resource must have an 'id' attribute.", <<>>)})
  /\ resources = <<>>

\* C17: the __fields_types__ of a class made by a class statement has every
\* name annotated by each of its ancestors and by the statement itself, and a
\* name annotated both by an ancestor and by the statement has the type hint
\* the statement gives it.
C17_MergedFields ==
  (call.op = "class" /\ ret.ok) =>
    LET stmt == call.stmt
        merged == resources[stmt.name].__fields_types__
    IN /\ \A i \in 1..Len(stmt.bases) :
            DOMAIN classes[stmt.bases[i]].__fields_types__ \subseteq DOMAIN merged
       /\ DOMAIN stmt.annotations \subseteq DOMAIN merged
       /\ \A n \in DOMAIN stmt.annotations : merged[n] = stmt.annotations[n]

\* C18: a class made by a class statement has the fields of its ancestors, and
\* its configuration comes from its own Meta alone, whatever the configuration
\* of its ancestors is: each of is_abstract, the resource name, the meta
\* attributes, the identifier meta attributes and the link factories is what
\* the Meta of the statement gives and, when it gives nothing, the default:
\* not abstract, the name of the class, no attributes, an empty registry.
C18_LocalMeta ==
  (call.op = "class" /\ ret.ok) =>
    LET stmt == call.stmt
        cls == resources[stmt.name]
        Given(option) == option \in DOMAIN stmt.meta
    IN /\ \A i \in 1..Len(stmt.bases) :
            DOMAIN classes[stmt.bases[i]].__fields_types__ \subseteq DOMAIN cls.__fields_types__
       /\ cls.__is_abstract__ =
            (IF Given("is_abstract") THEN stmt.meta["is_abstract"] ELSE FALSE)
       /\ cls.__resource_name__ =
            (IF Given("resource_name") THEN stmt.meta["resource_name"] ELSE stmt.name)
       /\ cls.__meta_attributes__ =
            (IF Given("meta_attributes") THEN stmt.meta["meta_attributes"] ELSE {})
       /\ cls.__identifier_meta_attributes__ =
            (IF Given("identifier_meta_attributes")
             THEN stmt.meta["identifier_meta_attributes"] ELSE {})
       /\ __links_factories__[stmt.name] =
            (IF Given("links_factories") THEN stmt.meta["links_factories"] ELSE EmptyDict)

\* BResource is made from SimpleResource, which has the resource name "less",
\* the meta attribute version and a link factory, with no Meta of its own:
\* it has the fields of SimpleResource and nothing of its configuration
C18_Witness ==
  /\ call.op = "class"
  /\ call.stmt.bases = <<"SimpleResource">>
  /\ DOMAIN call.stmt.meta = {}
  /\ ret.ok
  /\ classes["SimpleResource"].__resource_name__ = "less"
  /\ classes["SimpleResource"].__meta_attributes__ = {n_version}
  /\ DOMAIN __links_factories__["SimpleResource"] = {n_self}
  /\ {n_id, n_name} \subseteq DOMAIN resources["BResource"].__fields_types__
  /\ resources["BResource"].__resource_name__ = "BResource"
  /\ resources["BResource"].__meta_attributes__ = {}
  /\ ~resources["BResource"].__is_abstract__
  /\ __links_factories__["BResource"] = EmptyDict

\* C19: a construction whose keyword arguments lack a declared field whose type
\* hint is not optional raises a ValueError; when no keyword argument is a
\* reserved name, its message has exactly one "Missing argument" line for
\* each such field; a construction that lacks optional fields only, and has no
\* reserved name, returns.
C19_MissingArguments ==
  (call.op = "__init__") =>
    LET cls == classes[call.cls]
        fields == cls.__fields_types__
        missing == {n \in DOMAIN fields :
                      ~is_an_optional_type_hint(fields[n]) /\ n \notin DOMAIN call.kwargs}
        reserved == DOMAIN call.kwargs \cap
                      ({n_type, n_links, n_relationships, n_jsonapi_dict, n__identifier_dict})
    IN IF missing # {}
       THEN /\ ~ret.ok
            /\ ret.exc = "ValueError"
            /\ reserved = {} => ret.lines = {Line("Missing argument", n) : n \in missing}
       ELSE reserved = {} => ret.ok

\* C20: a construction with a keyword argument named type, links or
\* relationships, or named as a member of the class that is not a declared
\* field (the method jsonapi_dict, the property _identifier_dict), raises a
\* ValueError with exactly one "This attribute name is reserved" line for each
\* such name and leaves the program without an instance; a construction whose
\* keyword arguments are declared fields and unknown names only returns.
C20_ReservedNames ==
  (call.op = "__init__") =>
    LET cls == classes[call.cls]
        members == BaseResourceMembers \cup {n__identifier_dict}
        offending == {n \in DOMAIN call.kwargs :
                        \/ n \in {n_type, n_links, n_relationships}
                        \/ n \in members /\ n \notin DOMAIN cls.__fields_types__}
    IN IF offending # {}
       THEN /\ ret = Raise("ValueError",
                           {Line("This attribute name is reserved", n) : n \in offending})
            /\ inst = PyNone
       ELSE /\ ret.ok
            /\ inst = PyObject(call.cls, call.kwargs)

C22_CamelCaseKeys ==
  (call.op = "jsonapi_dict" /\ ret.ok) =>
    LET cls == classes[inst.cls]
        out == ret.value.d
        Key(n) ==
          IF call.dontformat THEN n
          ELSE CASE n = n_optional_attr -> <<"o","p","t","i","o","n","a","l","A","t","t","r">>
                 [] n = n_related_more -> <<"r","e","l","a","t","e","d","M","o","r","e">>
                 [] n = n_related_less -> <<"r","e","l","a","t","e","d","L","e","s","s">>
                 [] OTHER -> n
        asked == IF call.required_attributes = PyStr(ALL) THEN cls.__atomic_fields_set__
                 ELSE call.required_attributes.elems
        items == IF Truthy(call.relationships) THEN call.relationships.items ELSE <<>>
    IN /\ (n_attributes \in DOMAIN out) =>
            DOMAIN out[n_attributes].d = {Key(n) : n \in asked \ {n_type, n_id, n_meta}}
       /\ (n_meta \in DOMAIN out) =>
            DOMAIN out[n_meta].d \subseteq {Key(n) : n \in cls.__meta_attributes__}
       /\ (n_relationships \in DOMAIN out) =>
            DOMAIN out[n_relationships].d = {Key(items[i].k) : i \in 1..Len(items)}

\* C22, amended: in every dump that returns, the keys of the attributes object
\* and of the meta object are the camel-cased names of the fields asked for,
\* and with dontformat the names themselves; the keys of the relationships
\* object are the names of the relationships as the request gives them,
\* whatever dontformat is (related_more gives related_more).
C22_RelationshipKeysUnchanged ==
  (call.op = "jsonapi_dict" /\ ret.ok) =>
    LET cls == classes[inst.cls]
        out == ret.value.d
        Key(n) ==
          IF call.dontformat THEN n
          ELSE CASE n = n_optional_attr -> <<"o","p","t","i","o","n","a","l","A","t","t","r">>
                 [] OTHER -> n
        asked == IF call.required_attributes = PyStr(ALL) THEN cls.__atomic_fields_set__
                 ELSE call.required_attributes.elems
        items == IF Truthy(call.relationships) THEN call.relationships.items ELSE <<>>
    IN /\ (n_attributes \in DOMAIN out) =>
            DOMAIN out[n_attributes].d = {Key(n) : n \in asked \ {n_type, n_id, n_meta}}
       /\ (n_meta \in DOMAIN out) =>
            DOMAIN out[n_meta].d \subseteq {Key(n) : n \in cls.__meta_attributes__}
       /\ (n_relationships \in DOMAIN out) =>
            DOMAIN out[n_relationships].d = {items[i].k : i \in 1..Len(items)}

\* a RelatedResource dumped, with the default formatting, with its
\* relationship related_more: the key of the entry is related_more
C22_Witness ==
  /\ call.op = "jsonapi_dict"
  /\ ~call.dontformat
  /\ ret.ok
  /\ Truthy(call.relationships)
  /\ n_related_more \in DOMAIN ret.value.d[n_relationships].d

\* C23: snake_to_camel_case(text) is text without its underscores, where a
\* character of the first "_"-separated segment is unchanged, the first
\* character of every later segment is upper-cased and its other characters
\* are kept as they are; so a text with no underscore is returned unchanged,
\* "already_snake" gives "alreadySnake", and converting a converted text
\* returns it unchanged.
C23_CamelCase ==
  [][(call'.op = "snake_to_camel_case" /\ ~call'.dontformat) =>
       LET text == call'.name
           Kept(i) == text[i] # "_"
           kept == SelectSeq([i \in 1..Len(text) |-> i], Kept)
           Up(c) == IF c = "a" THEN "A" ELSE IF c = "s" THEN "S" ELSE c
           Char(i) == IF \A j \in 1..i : text[j] # "_" THEN text[i]
                      ELSE IF text[i - 1] = "_" THEN Up(text[i])
                      ELSE text[i]
       IN /\ ret' = Return(PyStr([k \in 1..Len(kept) |-> Char(kept[k])]))
          /\ (\A i \in 1..Len(text) : text[i] # "_") => ret'.value.s = text
          /\ (call.op = "snake_to_camel_case" /\ text = ret.value.s) => ret' = ret
    ]_vars

\* C23, amended: snake_to_camel_case(text) is text without its underscores,
\* where a character of the first "_"-separated segment is unchanged, the
\* first character of every later segment is upper-cased and its other
\* characters are lower-cased; so a text with no underscore is returned
\* unchanged, "already_snake" gives "alreadySnake", and converting a converted
\* text returns it unchanged.
C23_CamelCaseLowered ==
  [][(call'.op = "snake_to_camel_case" /\ ~call'.dontformat) =>
       LET text == call'.name
           Kept(i) == text[i] # "_"
           kept == SelectSeq([i \in 1..Len(text) |-> i], Kept)
           Up(c) == IF c = "a" THEN "A" ELSE IF c = "s" THEN "S" ELSE c
           Low(c) == IF c = "B" THEN "b" ELSE c
           Char(i) == IF \A j \in 1..i : text[j] # "_" THEN text[i]
                      ELSE IF text[i - 1] = "_" THEN Up(text[i])
                      ELSE Low(text[i])
       IN /\ ret' = Return(PyStr([k \in 1..Len(kept) |-> Char(kept[k])]))
          /\ (\A i \in 1..Len(text) : text[i] # "_") => ret'.value.s = text
          /\ (text = <<"a","l","r","e","a","d","y","_","s","n","a","k","e">>) =>
               ret'.value.s = <<"a","l","r","e","a","d","y","S","n","a","k","e">>
          /\ (call.op = "snake_to_camel_case" /\ text = ret.value.s) => ret' = ret
    ]_vars

\* "a_BB" has been converted: the B after the first of its segment is lower-cased
C23_Witness ==
  /\ call.op = "snake_to_camel_case"
  /\ ~call.dontformat
  /\ call.name = <<"a","_","B","B">>
  /\ ret = Return(PyStr(<<"a","B","b">>))

\* C24: a dump asked again with the same arguments, of the same instance and
\* with the same classes and registries, returns an equal dictionary or
\* raises the same error as the first time.
C24_Idempotent ==
  [][(/\ call.op = "jsonapi_dict"
      /\ call'.op = "jsonapi_dict"
      /\ call'.required_attributes = call.required_attributes
      /\ call'.dontformat = call.dontformat
      /\ call'.links = call.after.links
      /\ call'.relationships = call.after.relationships
      /\ inst' = inst
      /\ resources' = resources
      /\ __links_factories__' = __links_factories__)
     => ret' = ret]_vars

\* a dump that returned the data of a relationship and links built by a
\* factory from what a callable parameter returned, and may be asked again
C24_Witness ==
  /\ call.op = "jsonapi_dict"
  /\ ret.ok
  /\ \/ /\ call.links.t = "dict"
        /\ \E name \in DOMAIN call.links.d :
             /\ call.links.d[name] = PyDict((n_x :> PyCallable("get_id")))
             /\ ret.value.d[n_links].d[name].t = "built"
     \/ /\ call.relationships.t = "items"
        /\ \E i \in 1..Len(call.relationships.items) :
             LET item == call.relationships.items[i]
             IN /\ DictGet(item.v, n_data) = PyBool(TRUE)
                /\ ret.value.d[n_relationships].d[item.k].t = "dict"
                /\ n_data \in DOMAIN ret.value.d[n_relationships].d[item.k].d
  /\ ENABLED JsonapiDict(Again)

\* C25: every declared field name of a class is in the relationship field
\* set exactly when its type hint is a resource class R, Optional[R],
\* Iterable[R] or Optional[Iterable[R]]; if it is not, it is in the atomic
\* field set, unless it is type, links or relationships, which are never in
\* the atomic field set; so the two sets are disjoint and every other
\* declared name is in one of them.
C25_Classification ==
  \A c \in DOMAIN resources :
    LET klass == resources[c]
        IsResource(hint) == hint.origin = "None" /\ hint.metaclass = "BaseResourceMeta"
        IsCollection(hint) == hint.origin = "Iterable" /\ IsResource(hint.args[1])
        IsOptional(hint, Of(_)) ==
          /\ hint.origin = "Union"
          /\ Len(hint.args) = 2
          /\ \E i, j \in 1..2 : i # j /\ hint.args[i] = NoneType /\ Of(hint.args[j])
        Relationship(hint) ==
          \/ IsResource(hint)
          \/ IsOptional(hint, IsResource)
          \/ IsCollection(hint)
          \/ IsOptional(hint, IsCollection)
    IN /\ klass.__atomic_fields_set__ \cap klass.__relationships_fields_set__ = {}
       /\ \A name \in DOMAIN klass.__fields_types__ :
            /\ name \in klass.__relationships_fields_set__
                 <=> Relationship(klass.__fields_types__[name])
            /\ name \notin klass.__relationships_fields_set__
                 => (name \in klass.__atomic_fields_set__
                       <=> name \notin {n_type, n_links, n_relationships})

\* C26: a dump looks a link up by its exact key only. A link L asked inside
\* the relationship R with a parameter mapping is built by the factory
\* registered under R__L, and is refused as not a string when the registry has
\* no key R__L, whatever it has under L; a top-level link L is built by the
\* factory registered under L, and refused when the registry has no key L,
\* whatever it has under R__L.
C26_ExactKey ==
  call.op = "jsonapi_dict" =>
    LET registry == __links_factories__[inst.cls]
        Key(relationship, name) ==
          IF relationship = <<>> THEN name ELSE relationship \o <<"_","_">> \o name
        Asked(relationship, links) ==
          IF Truthy(links) THEN {<<relationship, name>> : name \in DOMAIN links.d} ELSE {}
        inside == IF Truthy(call.relationships)
                  THEN UNION {Asked(call.relationships.items[i].k,
                                    DictGet(call.relationships.items[i].v, n_links)) :
                                i \in 1..Len(call.relationships.items)}
                  ELSE {}
        top == Asked(<<>>, call.links)
        Unregistered(asked) == {a \in asked : Key(a[1], a[2]) \notin DOMAIN registry}
        Refused(asked) ==
          Raise("ValueError", {Line("Provided link is not a string", Key(a[1], a[2])) :
                                 a \in Unregistered(asked)})
        Built(a, links) ==
          links.d[a[2]] = PyBuilt(registry[Key(a[1], a[2])].f, (n_x :> PyInt(1)))
    IN IF Unregistered(inside) # {} THEN ret = Refused(inside)
       ELSE IF Unregistered(top) # {} THEN ret = Refused(top)
       ELSE /\ ret.ok
            /\ \A a \in top : Built(a, ret.value.d[n_links])
            /\ \A a \in inside : Built(a, ret.value.d[n_relationships].d[a[1]].d[n_links])

\* a dump that asked for the link self at the top level and in related_more,
\* the two built by the factories of the keys self and related_more__self,
\* which differ; the registry has the key other and not related_more__other
C26_Witness ==
  /\ call.op = "jsonapi_dict"
  /\ ret.ok
  /\ DOMAIN __links_factories__[inst.cls]
       = {n_self, n_other, n_related_more \o <<"_","_">> \o n_self}
  /\ __links_factories__[inst.cls][n_self] = PyCallable("link_factory")
  /\ __links_factories__[inst.cls][n_related_more \o <<"_","_">> \o n_self]
       = PyCallable("rel_link_factory")
  /\ call.links = PyDict((n_self :> PyDict((n_x :> PyInt(1)))))
  /\ call.relationships = PyItems(<<Item(n_related_more, (n_links :> call.links))>>)
  /\ ret.value.d[n_links].d[n_self].factory = "link_factory"
  /\ ret.value.d[n_relationships].d[n_related_more].d[n_links].d[n_self].factory
       = "rel_link_factory"

\* C27: a dump that asks for a relationship whose field has an optional type
\* hint and was not given to the constructor reads the field as its default
\* and returns the empty entry for it, an empty list for an iterable type
\* hint and null otherwise, not an error.
C27_UnsuppliedRelationship ==
  (/\ call.op = "jsonapi_dict"
   /\ n_id \in DOMAIN inst.dict
   /\ call.required_attributes = PySet({})
   /\ call.links = PyNone
   /\ call.relationships.t = "items"
   /\ Len(call.relationships.items) = 1)
  => LET cls == classes[inst.cls]
         name == call.relationships.items[1].k
         payload == call.relationships.items[1].v
         hint == cls.__fields_types__[name]
         default == IF is_an_iterable_type_hint(hint) THEN PyList(<<>>) ELSE PyNone
     IN (/\ name \in cls.__relationships_fields_set__
         /\ is_an_optional_type_hint(hint)
         /\ name \notin DOMAIN inst.dict
         /\ DOMAIN payload # {})
        => /\ ret.ok
           /\ ret.value.d[n_relationships] = PyDict((name :> default))

\* C28: whatever class statements and register_link_factory calls were made,
\* accepted or refused, every key of the link factory registry of a class
\* that contains "__" has, before its first "__", the name of a relationship
\* field of that class.
C28_QualifiedKeys ==
  \A c \in DOMAIN __links_factories__ :
    \A key \in DOMAIN __links_factories__[c] :
      LET parts == split(key, <<"_","_">>)
      IN Len(parts) > 1 => parts[1] \in classes[c].__relationships_fields_set__

\* BResource, derived from SimpleResource, is defined with the relationship rel
\* and the key rel__self in its Meta.links_factories, and the registration of
\* rel__self on SimpleResource, which has no rel, has just been refused
C28_Witness ==
  /\ "BResource" \in DOMAIN resources
  /\ resources["BResource"].mro[2] = "SimpleResource"
  /\ n_rel \in resources["BResource"].__relationships_fields_set__
  /\ _qualname(n_self, n_rel) \in DOMAIN __links_factories__["BResource"]
  /\ call.op = "register_link_factory"
  /\ call.cls = "SimpleResource"
  /\ call.name = n_rel \o <<"_","_">> \o n_self
  /\ ~ret.ok
  /\ DOMAIN __links_factories__["SimpleResource"] = {n_self}

\* C29: each class has a link factory registry of its own. A
\* register_link_factory on a class leaves the registry of every other class
\* as it was, its ancestors and the classes derived from it included; a class
\* statement gives the new class the factories of its own Meta only and
\* touches no other registry; and a dump looks a link up in the registry of
\* the class of the instance only, so a link given with a parameter mapping
\* that has a factory on an ancestor and none on the class is refused.
C29_OwnRegistry ==
  [][/\ call'.op = "register_link_factory" =>
          \A c \in DOMAIN __links_factories__ \ {call'.cls} :
            /\ c \in DOMAIN __links_factories__'
            /\ __links_factories__'[c] = __links_factories__[c]
     /\ (call'.op = "class" /\ ret'.ok) =>
          /\ __links_factories__'[call'.stmt.name]
               = MetaGet(call'.stmt.meta, "links_factories", EmptyDict)
          /\ \A c \in DOMAIN __links_factories__ :
               __links_factories__'[c] = __links_factories__[c]
     /\ call'.op = "jsonapi_dict" =>
          LET own == DOMAIN __links_factories__[inst.cls]
              refused == DOMAIN call'.links.d \ own
          IN IF refused = {} THEN ret'.ok
             ELSE ret' = Raise("ValueError",
                               {Line("Provided link is not a string", n) : n \in refused})
    ]_vars

\* an instance of a class derived from SimpleResource dumped with the link
\* other, which a register_link_factory call gave a factory on SimpleResource
\* and which has none on the class of the instance: the dump refused it
C29_Witness ==
  /\ call.op = "jsonapi_dict"
  /\ inst.cls \in {"MoreAttributes", "BResource"}
  /\ DefinedClasses["SimpleResource"].__links_factories__ = (n_self :> PyCallable("link_factory"))
  /\ DOMAIN __links_factories__["SimpleResource"] = {n_self, n_other}
  /\ n_other \notin DOMAIN __links_factories__[inst.cls]
  /\ call.links = PyDict((n_other :> PyDict((n_x :> PyInt(1)))))
  /\ ret = Raise("ValueError", {Line("Provided link is not a string", n_other)})

\* C30: a dump, whether it returns or raises, leaves the instance with its
\* attribute values and related instances, the classes and their link factory
\* registries as they were, and the caller finds the links and relationships
\* it gave as it gave them: a parameter that was a callable is still the
\* callable, not what it returned.
C30_DumpFrame ==
  [][call'.op = "jsonapi_dict"
     => /\ inst' = inst
        /\ resources' = resources
        /\ __links_factories__' = __links_factories__
        /\ call'.after.links = call'.links
        /\ call'.after.relationships = call'.relationships]_vars

\* a dump that returned a link built from what the callable parameter
\* returned, the caller's links still holding the callable
C30_Witness ==
  /\ call.op = "jsonapi_dict"
  /\ ret.ok
  /\ call.links.t = "dict"
  /\ \E name \in DOMAIN call.links.d :
       /\ call.after.links.d[name] = PyDict((n_x :> PyCallable("get_id")))
       /\ ret.value.d[n_links].d[name].t = "built"
       /\ ret.value.d[n_links].d[name].kwargs = (n_x :> inst.dict[n_id])

====
